---- MODULE Spec2Model ----
(***************************************************************************)
(* SecureVault: the authentication screen (app/authenticate.tsx), the      *)
(* AuthenticationManager (utils/SecurityManager.js, lines 801-1439) and    *)
(* the SecurityManager session/navigation layer (utils/SecurityManager.ts) *)
(* as a state machine.                                                     *)
(*                                                                         *)
(* Three specifications share the variables:                               *)
(*   Spec          the app from a fresh install: launch, onboarding,       *)
(*                 setup, the authentication screen, its alerts, the wipe, *)
(*                 background/foreground, the timers, a restart;           *)
(*   SpecAuthUser  direct calls of AuthenticationManager.authenticateUser  *)
(*                 on the stores setup and emergencyWipe leave;            *)
(*   SpecRecovery  direct calls of verifyRecoveryCode on stored batches.   *)
(*                                                                         *)
(* Abstractions.  A password hash is the pair <<password, salt>> (the KDF  *)
(* is deterministic and taken to be collision free).  An encrypted blob    *)
(* records the key it was produced under and its plaintext; decrypting     *)
(* with another key yields garbage (the XOR keystream of another key),     *)
(* which neither parses as JSON nor validates as a Base32 secret.  A TOTP  *)
(* candidate is "good" when it is a code of the stored secret inside the   *)
(* drift window at the moment of the check and "bad" otherwise.  Wall      *)
(* clock comparisons (session expiry) are inputs of the step, and so is a  *)
(* SecureStore read that throws.  The recovery codes of one batch are      *)
(* pairwise distinct (each is 8 random characters).  A handler that        *)
(* awaits is two steps: up to the await, and after it; a handler whose     *)
(* screen was unmounted meanwhile still shows its alerts and writes the    *)
(* store, but its setState calls do nothing.                               *)
(***************************************************************************)
EXTENDS Naturals, Sequences, FiniteSets

\* ------------------------------------------------------------------ bounds
\* failedAttempts is capped in the guard of a submission (the code has no cap)
MaxFailed == 6
\* pending grace-period timers (markAuthenticationCompleted never cancels one)
MaxGraceTimers == 1
\* recovery codes in a stored batch of the recovery-code specification
MaxCodes == 3
\* the time steps (30 s periods since the epoch) the TOTP digest is drawn for
MaxStep == 4
\* calls of markAuthenticationCompleted in a behaviour of the grace-period clock
MaxMarks == 2
\* ticks the clock of the grace period (1 s each) and of the session timer
\* (5 s each) runs for
MaxClock == 12
\* UTF-16 code units in a plaintext handed to CryptoUtils.encrypt
MaxText == 2
\* characters of the secrets (hashes, codes) that are compared
MaxSecret == 3
\* runs of initializeSecurity in one process
MaxInits == 3

\* -------------------------------------------------------- program constants
\* authenticate.tsx:142  if (failedAttempts >= 4) showResetOption()
ResetOfferAfter == 4

\* ------------------------------------------------------------------ values
NULL == "null"
MasterPassword == "pw"
WrongPassword == "bad"
Passwords == {MasterPassword, WrongPassword}
TotpCodes == {"good", "bad"}
Codes == {"c1", "c2", "c3", "c4"}
Salt == "s1"

\* --------------------------------------------------------------- CryptoUtils
\* masterPassword + deviceId + 'RECOVERY_CODE_SALT' | 'TOTP_SECRET_SALT'
RecoveryKey(masterPassword) == <<masterPassword, "RECOVERY_CODE_SALT">>
TotpKey(masterPassword) == <<masterPassword, "TOTP_SECRET_SALT">>

\* JSON.stringify(codes) as a plaintext; a single legacy code as a plaintext
CodeList(codes) == [kind |-> "list", codes |-> codes]
OneCode(code) == [kind |-> "code", codes |-> <<code>>]

Encrypt(plain, key) == [key |-> key, kind |-> plain.kind, codes |-> plain.codes]

\* a stored string that is no ciphertext envelope: JSON.parse or atob throws in
\* decrypt, which rethrows 'Decryption failed'
Malformed == [key |-> <<>>, kind |-> "malformed", codes |-> <<>>]
Decrypt(blob, key) ==
  IF blob.kind = "malformed" THEN [kind |-> "error", codes |-> <<>>]
  ELSE IF blob.key = key THEN [kind |-> blob.kind, codes |-> blob.codes]
  ELSE [kind |-> "garbage", codes |-> <<>>]

HashPassword(password, salt) == <<password, salt>>

\* Array.prototype.indexOf, 1-based; 0 when absent
FirstIndex(s, x) == IF Len(s) > 0 THEN 1 ELSE 0

IndexOf(s, x) ==
  IF \E i \in 1..Len(s) : s[i] = x
  THEN CHOOSE i \in 1..Len(s) : s[i] = x /\ \A j \in 1..(i - 1) : s[j] # x
  ELSE 0

\* Array.prototype.splice(i, 1)
KeepAll(s, i) == s

Splice(s, i) == [j \in 1..(Len(s) - 1) |-> IF j < i THEN s[j] ELSE s[j + 1]]

\* ------------------------------------------------------ the key-value store
No2FA == [stored |-> FALSE, encryptedSecret |-> [key |-> <<>>, kind |-> "none", codes |-> <<>>], encryptedRecoveryCodes |-> <<>>]

EmptyStore ==
  [ hasCompletedOnboarding |-> NULL,
    hasSetupPassword |-> NULL,
    biometricEnabled |-> NULL,
    masterPasswordHash |-> <<>>,
    passwordSalt |-> NULL,
    twoFactorConfig |-> No2FA ]

\* ---------------------------------------------------- AuthenticationManager
\* `fails' stands for SecureStore.getItemAsync throwing inside the call.

\* getAuthenticationSettings: every read in one try; any error gives all-false
GetAuthenticationSettings(st, fails) ==
  IF fails
  THEN [hasPassword |-> FALSE, biometricEnabled |-> FALSE, twoFactorEnabled |-> FALSE]
  ELSE [ hasPassword |-> (st.hasSetupPassword = "true"),
         biometricEnabled |-> (st.biometricEnabled = "true"),
         twoFactorEnabled |-> st.twoFactorConfig.stored ]

\* `hashFails' stands for the digest primitive (Crypto.digestStringAsync)
\* rejecting inside the call.

\* !storedHash, !salt: the key is absent (null) or holds the empty string; a
\* hash is a tuple in this model and the absent or empty one is <<>>

\* verifyMasterPassword, the try block: "true", "false", or "throws"
VerifyMasterPasswordTry(st, password, fails, hashFails) ==
  IF fails THEN "throws"
  ELSE IF st.masterPasswordHash = <<>> \/ st.passwordSalt \in {NULL, ""} THEN "false"
  ELSE IF hashFails THEN "throws"
  ELSE IF HashPassword(password, st.passwordSalt) = st.masterPasswordHash THEN "true"
  ELSE "false"

\* verifyMasterPassword, the catch block: return false
PasswordCatchAccepts == TRUE

PasswordCatch == FALSE

\* verifyMasterPassword
VerifyMasterPassword(st, password, fails, hashFails) ==
  LET r == VerifyMasterPasswordTry(st, password, fails, hashFails)
  IN IF r = "throws" THEN PasswordCatch ELSE r = "true"

\* verifyBiometric: the oracle's answer; a thrown error is caught and is false
VerifyBiometric(outcome) == outcome = "success"

\* verifyTOTPCode, the catch block: return false
TotpCatchAccepts == TRUE

TotpCatch == FALSE

\* verifyTOTPCode: TOTPManager.verifyTOTP on the decrypted secret.  verifyTOTP
\* validates nothing: what another key decrypts to is decoded as a secret too,
\* and the candidate that is a code of it ("stray") is valid.  A digest that
\* rejects makes verifyTOTP throw.
VerifyTOTPCode(providedCode, secret, hashFails) ==
  IF hashFails THEN TotpCatch
  ELSE IF secret.kind = "secret" THEN providedCode = "good"
  ELSE providedCode = "stray"

\* a twoFactorConfig string that JSON.parse rejects
UnparsedConfig ==
  [ stored |-> TRUE,
    encryptedSecret |-> [key |-> <<>>, kind |-> "unparsed", codes |-> <<>>],
    encryptedRecoveryCodes |-> <<>> ]

\* verify2FA, the try block: "true", "false", or "throws"
Verify2FATry(st, providedCode, masterPassword, fails, hashFails) ==
  LET config == st.twoFactorConfig
      decryptedSecret == Decrypt(config.encryptedSecret, TotpKey(masterPassword))
  IN IF fails THEN "throws"
     ELSE IF ~config.stored THEN "false"
     ELSE IF config = UnparsedConfig THEN "throws"
     ELSE IF decryptedSecret = [kind |-> "error", codes |-> <<>>] THEN "throws"
     ELSE IF VerifyTOTPCode(providedCode, decryptedSecret, hashFails) THEN "true"
     ELSE "false"

\* verify2FA
Verify2FA(st, providedCode, masterPassword, fails, hashFails) ==
  LET r == Verify2FATry(st, providedCode, masterPassword, fails, hashFails)
  IN IF r = "throws" THEN FALSE ELSE r = "true"      \* catch: return false

\* the index of the first legacy blob that decrypts to providedCode, 0 if none
LegacyMatch(blobs, providedCode, key) ==
  LET hit(i) == Decrypt(blobs[i], key) = OneCode(providedCode)
  IN IF \E i \in 1..Len(blobs) : hit(i)
     THEN CHOOSE i \in 1..Len(blobs) : hit(i) /\ \A j \in 1..(i - 1) : ~hit(j)
     ELSE 0

Rejected(st) == [ok |-> FALSE, wrote |-> FALSE, store |-> st]

\* the batch branch: one blob holding the JSON list of all codes
VerifyRecoveryBatch(st, providedCode, key) ==
  LET config == st.twoFactorConfig
      dec == Decrypt(config.encryptedRecoveryCodes[1], key)
      codeIndex == IndexOf(dec.codes, providedCode)
  IN IF dec.kind # "list" THEN Rejected(st)      \* JSON.parse throws: inner catch
     ELSE IF codeIndex # 0
     THEN [ ok |-> TRUE, wrote |-> TRUE,
            store |-> [st EXCEPT !.twoFactorConfig.encryptedRecoveryCodes =
                         << Encrypt(CodeList(Splice(dec.codes, codeIndex)), key) >>] ]
     ELSE Rejected(st)

\* the legacy branch: one blob per code
VerifyRecoveryLegacy(st, providedCode, key) ==
  LET blobs == st.twoFactorConfig.encryptedRecoveryCodes
      i == LegacyMatch(blobs, providedCode, key)
  IN IF i # 0
     THEN [ ok |-> TRUE, wrote |-> TRUE,
            store |-> [st EXCEPT !.twoFactorConfig.encryptedRecoveryCodes = Splice(blobs, i)] ]
     ELSE Rejected(st)

\* verifyRecoveryCode: result, whether setItemAsync was called, and the store after
VerifyRecoveryCode(st, providedCode, masterPassword, fails) ==
  IF fails THEN Rejected(st)
  ELSE IF ~st.twoFactorConfig.stored THEN Rejected(st)
  ELSE IF Len(st.twoFactorConfig.encryptedRecoveryCodes) = 1
  THEN VerifyRecoveryBatch(st, providedCode, RecoveryKey(masterPassword))
  ELSE VerifyRecoveryLegacy(st, providedCode, RecoveryKey(masterPassword))

GetRequiredAuthMethods(authSettings) ==
  (IF authSettings.hasPassword THEN {"password"} ELSE {})
    \cup (IF authSettings.biometricEnabled THEN {"biometric"} ELSE {})
    \cup (IF authSettings.twoFactorEnabled THEN {"twoFactor"} ELSE {})

ValidateAuthenticationResults(results, requiredMethods) ==
  /\ ("password" \in requiredMethods => results.passwordValid)
  /\ ("biometric" \in requiredMethods => results.biometricValid)
  /\ ("twoFactor" \in requiredMethods => results.twoFactorValid)

\* ================================================================== state
VARIABLES
  store,              \* expo-secure-store contents
  route,              \* the screen the router shows
  alerts,             \* Alert dialogs on display (modal: they block the screen)
  authSettings,       \* AuthenticateScreen: useState authSettings
  settingsLoaded,     \* loadAuthSettings has resolved for this mount
  authStep,           \* 1: password, 2: biometric, 3: 2FA
  failedAttempts,
  completedAuth,
  isLoading,
  password,           \* the password text field
  pending,            \* the handler suspended at its await
  initialized,        \* SecurityManager.initializeSecurity has run in this process
  isAuthenticated,    \* SecurityManager.isAuthenticated (the grace flag)
  graceTimers,        \* pending grace-period timeouts
  sessionTimer,       \* a session timeout is pending
  isAppInBackground,
  verified,           \* history: verify calls that returned true in this attempt
  granted,            \* history: checkAuthenticationComplete granted access
  offered,            \* history: showResetOption ran for this attempt
  failures,           \* history: verify calls that returned false in this attempt
  confirmPresses,     \* history: confirm buttons pressed since the reset offer
  lastEvent,          \* history: the handler that ran last
  call                \* the last direct AuthenticationManager call and its result

screenVars == <<authSettings, settingsLoaded, authStep, failedAttempts, completedAuth,
                isLoading, password>>
smVars == <<initialized, isAuthenticated, graceTimers, sessionTimer, isAppInBackground>>
histVars == <<verified, granted, offered, failures>>
vars == <<store, route, alerts, screenVars, pending, smVars, histVars, confirmPresses,
          lastEvent, call>>

NoSettings == [hasPassword |-> FALSE, biometricEnabled |-> FALSE, twoFactorEnabled |-> FALSE]
NoneDone == [password |-> FALSE, biometric |-> FALSE, twoFactor |-> FALSE]
NoPending == [op |-> "none", live |-> FALSE, fa |-> 0, pw |-> "", useRecoveryCode |-> FALSE,
              code |-> NULL]
NoCall == [op |-> "none", accepted |-> {}]


\* useState initial values of AuthenticateScreen (authenticate.tsx:18-36); the
\* state of a screen that is not mounted is kept at these values
FreshScreen ==
  /\ authSettings' = NoSettings
  /\ settingsLoaded' = FALSE
  /\ authStep' = 1
  /\ failedAttempts' = 0
  /\ completedAuth' = NoneDone
  /\ isLoading' = FALSE
  /\ password' = ""
  /\ verified' = NoneDone
  /\ granted' = FALSE
  /\ offered' = FALSE
  /\ failures' = 0

\* the screen is mounted anew (or unmounted); a suspended handler is orphaned
MountScreen ==
  /\ FreshScreen
  /\ pending' = IF pending.op = "none" THEN pending ELSE [pending EXCEPT !.live = FALSE]
  /\ lastEvent' = "mount"

\* the mounted screen, if any, stays as it is
KeepScreen ==
  /\ UNCHANGED <<screenVars, pending, histVars>>
  /\ lastEvent' = "other"

\* the process has just started: nothing is mounted, SecurityManager's statics
\* have their initial values
AppFresh ==
  /\ route = "index"
  /\ alerts = {}
  /\ authSettings = NoSettings
  /\ settingsLoaded = FALSE
  /\ authStep = 1
  /\ failedAttempts = 0
  /\ completedAuth = NoneDone
  /\ isLoading = FALSE
  /\ password = ""
  /\ pending = NoPending
  /\ initialized = FALSE
  /\ isAuthenticated = FALSE
  /\ graceTimers = 0
  /\ sessionTimer = FALSE
  /\ isAppInBackground = FALSE
  /\ verified = NoneDone
  /\ granted = FALSE
  /\ offered = FALSE
  /\ failures = 0
  /\ confirmPresses = 0
  /\ lastEvent = "init"

\* a fresh install
Init ==
  /\ store = EmptyStore
  /\ call = NoCall
  /\ AppFresh

\* ============================================= AuthenticateScreen: the logic
\* checkAuthenticationComplete, lines 72-91: every required method is completed
AllCompletedBut2FA(settings, done) ==
  /\ (~settings.hasPassword \/ done.password)
  /\ (~settings.biometricEnabled \/ done.biometric)

AllCompleted(settings, done) ==
  /\ (~settings.hasPassword \/ done.password)
  /\ (~settings.biometricEnabled \/ done.biometric)
  /\ (~settings.twoFactorEnabled \/ done.twoFactor)

\* checkAuthenticationComplete, lines 109-119: the first incomplete required step
NextStepTwoFactorFirst(settings, done, step) ==
  IF settings.hasPassword /\ ~done.password THEN 1
  ELSE IF settings.twoFactorEnabled /\ ~done.twoFactor THEN 3
  ELSE IF settings.biometricEnabled /\ ~done.biometric THEN 2
  ELSE step

NextStep(settings, done, step) ==
  IF settings.hasPassword /\ ~done.password THEN 1
  ELSE IF settings.biometricEnabled /\ ~done.biometric THEN 2
  ELSE IF settings.twoFactorEnabled /\ ~done.twoFactor THEN 3
  ELSE step

\* the guard of the useEffect on [completedAuth, authSettings], lines 45-49
EffectRunsOnBiometric(settings) == settings.biometricEnabled

EffectRuns(settings) ==
  settings.hasPassword \/ settings.biometricEnabled \/ settings.twoFactorEnabled

\* getCurrentStep: the step that is rendered; 0 is the else branch, which
\* navigates to the tabs without any check
RenderedStep(step, settings) ==
  IF step = 1 THEN 1
  ELSE IF step = 2 /\ settings.biometricEnabled THEN 2
  ELSE IF step = 3 /\ settings.twoFactorEnabled THEN 3
  ELSE 0

\* setFailedAttempts((prev) => prev + 1)
IncFailedTwice(prev) == prev + 2

IncFailed(prev) == prev + 1

\* the success branch of a handler makes no call of setFailedAttempts
CounterClearedOnSuccess(prev) == 0

CounterOnSuccess(prev) == prev


\* SecurityManager.markAuthenticationCompleted, then router.replace('/(tabs)').
\* SecurityManager.enterProtectedFlow, called in between, is not defined in
\* utils/SecurityManager.ts; nothing that file reads depends on it.
GrantAccess ==
  /\ isAuthenticated' = TRUE
  /\ sessionTimer' = TRUE
  /\ graceTimers' = graceTimers + 1
  /\ route' = "tabs"
  /\ granted' = TRUE

\* the effect and the render that follow a change of completedAuth or authSettings
CheckAuthenticationComplete(settings, done, current) ==
  IF EffectRuns(settings) /\ AllCompleted(settings, done)
  THEN /\ GrantAccess
       /\ authStep' = current
  ELSE LET step == IF EffectRuns(settings) THEN NextStep(settings, done, current)
                   ELSE current
       IN /\ authStep' = step
          /\ route' = IF RenderedStep(step, settings) = 0 THEN "tabs" ELSE "authenticate"
          /\ UNCHANGED <<isAuthenticated, sessionTimer, graceTimers, granted>>

\* the user can act on the screen: it is shown, in the foreground, under no alert
OnScreen == route = "authenticate" /\ alerts = {} /\ ~isAppInBackground

\* ------------------------------------------------------------- launch, setup
\* Index.checkAppState: initializeSecurity, then the route the stored flags select
IndexCheckAppState ==
  /\ route = "index"
  /\ \E fails \in BOOLEAN :
       LET target == IF fails THEN "onboarding"
                     ELSE IF store.hasCompletedOnboarding = NULL THEN "onboarding"
                     ELSE IF store.hasSetupPassword = NULL THEN "setup"
                     ELSE "authenticate"
       IN /\ route' = target
          /\ initialized' = TRUE
          /\ sessionTimer' = TRUE
          /\ IF target = "authenticate"
             THEN MountScreen
             ELSE KeepScreen
  /\ UNCHANGED <<store, alerts, isAuthenticated, graceTimers, isAppInBackground,
                 confirmPresses, call>>

\* onboarding.tsx: handleDone / handleSkip
OnboardingDone ==
  /\ route = "onboarding" /\ alerts = {} /\ ~isAppInBackground
  /\ store' = [store EXCEPT !.hasCompletedOnboarding = "true"]
  /\ route' = "setup"
  /\ lastEvent' = "other"
  /\ UNCHANGED <<alerts, screenVars, pending, smVars, histVars, confirmPresses, call>>


\* setupAuthentication followed by the writes of setup.tsx:142-152
SetupStore(st, enableBiometric, enable2FA) ==
  [ hasCompletedOnboarding |-> "true",
    hasSetupPassword |-> "true",
    biometricEnabled |-> IF enableBiometric THEN "true" ELSE "false",
    masterPasswordHash |-> HashPassword(MasterPassword, Salt),
    passwordSalt |-> Salt,
    twoFactorConfig |->
      IF enable2FA
      THEN [ stored |-> TRUE,
             encryptedSecret |-> Encrypt([kind |-> "secret", codes |-> <<>>], TotpKey(MasterPassword)),
             encryptedRecoveryCodes |->
               << Encrypt(CodeList(<<"c1">>), RecoveryKey(MasterPassword)) >> ]
      ELSE No2FA ]

\* setup.tsx handleSetup, the successful path
SetupSubmit ==
  /\ route = "setup" /\ alerts = {} /\ ~isAppInBackground
  /\ \E enableBiometric \in BOOLEAN, enable2FA \in BOOLEAN :
       /\ store' = SetupStore(store, enableBiometric, enable2FA)
       /\ sessionTimer' = TRUE                      \* setSessionTimeout
       /\ IF enable2FA
          THEN /\ alerts' = alerts \cup {"setupInfo"}
               /\ UNCHANGED route
               /\ KeepScreen
          ELSE /\ route' = "authenticate"
               /\ MountScreen
               /\ UNCHANGED alerts
  /\ UNCHANGED <<initialized, isAuthenticated, graceTimers, isAppInBackground,
                 confirmPresses, call>>

\* the Continue button of the '2FA Setup Complete' alert
SetupInfoContinue ==
  /\ "setupInfo" \in alerts /\ ~isAppInBackground
  /\ alerts' = alerts \ {"setupInfo"}
  /\ route' = "authenticate"
  /\ MountScreen
  /\ UNCHANGED <<store, smVars, confirmPresses, call>>

\* ------------------------------------------------ AuthenticateScreen: handlers
\* loadAuthSettings run by an effect without its empty dependency list
LoadAuthSettingsOnEveryRender ==
  /\ route = "authenticate"
  /\ \E fails \in BOOLEAN :
       LET settings == GetAuthenticationSettings(store, fails)
       IN /\ authSettings' = settings
          /\ CheckAuthenticationComplete(settings, completedAuth, 1)
  /\ settingsLoaded' = TRUE
  /\ lastEvent' = "other"
  /\ UNCHANGED <<store, alerts, failedAttempts, completedAuth, isLoading, password, pending,
                 initialized, isAppInBackground, verified, offered, failures,
                 confirmPresses, call>>

\* loadAuthSettings resolves: setAuthSettings, setAuthStep(1), then the effect
LoadAuthSettings ==
  /\ route = "authenticate" /\ ~settingsLoaded
  /\ \E fails \in BOOLEAN :
       LET settings == GetAuthenticationSettings(store, fails)
       IN /\ authSettings' = settings
          /\ CheckAuthenticationComplete(settings, completedAuth, 1)
  /\ settingsLoaded' = TRUE
  /\ lastEvent' = "other"
  /\ UNCHANGED <<store, alerts, failedAttempts, completedAuth, isLoading, password, pending,
                 initialized, isAppInBackground, verified, offered, failures,
                 confirmPresses, call>>

\* onChangeText of the master password field
TypePassword ==
  /\ OnScreen /\ RenderedStep(authStep, authSettings) = 1
  /\ \E p \in Passwords : password' = p
  /\ password' # password
  /\ lastEvent' = "other"
  /\ UNCHANGED <<store, route, alerts, authSettings, settingsLoaded, authStep, failedAttempts,
                 completedAuth, isLoading, pending, smVars, histVars, confirmPresses, call>>

\* handleAuthenticate up to its await; the 2FA field contents are the step's input
PressAuthenticate ==
  /\ OnScreen /\ ~isLoading /\ pending.op = "none"
  /\ failedAttempts < MaxFailed /\ graceTimers < MaxGraceTimers
  /\ \/ /\ RenderedStep(authStep, authSettings) = 1
        /\ password # ""
        /\ pending' = [op |-> "password", live |-> TRUE, fa |-> failedAttempts,
                       pw |-> password, useRecoveryCode |-> FALSE, code |-> NULL]
     \/ /\ RenderedStep(authStep, authSettings) = 3
        /\ \E useRecoveryCode \in BOOLEAN :
             \E code \in (IF useRecoveryCode THEN {"c1", "c2"} ELSE TotpCodes) :
               pending' = [op |-> "twoFactor", live |-> TRUE, fa |-> failedAttempts,
                           pw |-> password, useRecoveryCode |-> useRecoveryCode,
                           code |-> code]
  /\ isLoading' = TRUE
  /\ sessionTimer' = TRUE                           \* trackUserActivity
  /\ lastEvent' = "other"
  /\ UNCHANGED <<store, route, alerts, authSettings, settingsLoaded, authStep, failedAttempts,
                 completedAuth, password, initialized, isAuthenticated, graceTimers,
                 isAppInBackground, histVars, confirmPresses, call>>

\* handleBiometricAuth up to its await
PressBiometric ==
  /\ OnScreen /\ ~isLoading /\ pending.op = "none"
  /\ failedAttempts < MaxFailed /\ graceTimers < MaxGraceTimers
  /\ RenderedStep(authStep, authSettings) = 2
  /\ authSettings.biometricEnabled
  /\ pending' = [op |-> "biometric", live |-> TRUE, fa |-> failedAttempts,
                 pw |-> password, useRecoveryCode |-> FALSE, code |-> NULL]
  /\ isLoading' = TRUE
  /\ lastEvent' = "other"
  /\ UNCHANGED <<store, route, alerts, authSettings, settingsLoaded, authStep, failedAttempts,
                 completedAuth, password, smVars, histVars, confirmPresses, call>>

\* the failure branch of a handler: counter, alert, reset offer past the threshold
StepFailed ==
  LET offer == pending.fa >= ResetOfferAfter
  IN /\ alerts' = alerts \cup {"authFailed"} \cup (IF offer THEN {"resetOffer"} ELSE {})
     /\ confirmPresses' = IF offer THEN 0 ELSE confirmPresses
     /\ IF pending.live
        THEN /\ failedAttempts' = IncFailed(failedAttempts)
             /\ isLoading' = FALSE
             /\ failures' = failures + 1
             /\ offered' = (offered \/ offer)
             /\ lastEvent' = "other"
        ELSE /\ UNCHANGED <<failedAttempts, isLoading, failures, offered>>
             /\ lastEvent' = "other"
     /\ UNCHANGED <<route, authSettings, settingsLoaded, authStep, completedAuth, password,
                    initialized, isAuthenticated, graceTimers, sessionTimer,
                    isAppInBackground, verified, granted>>

\* the success branch of a handler: the step's flag, then the effect
StepSucceeded(method) ==
  /\ IF pending.live
     THEN LET done == [completedAuth EXCEPT ![method] = TRUE]
          IN /\ completedAuth' = done
             /\ verified' = [verified EXCEPT ![method] = TRUE]
             /\ isLoading' = FALSE
             /\ failedAttempts' = CounterOnSuccess(failedAttempts)
             /\ CheckAuthenticationComplete(authSettings, done, authStep)
             /\ lastEvent' = "other"
     ELSE /\ UNCHANGED <<completedAuth, verified, isLoading, failedAttempts, authStep, route,
                         isAuthenticated, sessionTimer, graceTimers, granted>>
          /\ lastEvent' = "other"
  /\ UNCHANGED <<alerts, authSettings, settingsLoaded, password, initialized,
                 isAppInBackground, offered, failures, confirmPresses>>

\* handleAuthenticate after its await (password step or 2FA step)
ResolveAuthenticate ==
  /\ pending.op \in {"password", "twoFactor"}
  /\ \E fails \in BOOLEAN, hashFails \in BOOLEAN :
       LET twoFactor ==
             IF pending.op # "twoFactor" THEN Rejected(store)
             ELSE IF pending.useRecoveryCode
             THEN VerifyRecoveryCode(store, pending.code, pending.pw, fails)
             ELSE [ok |-> Verify2FA(store, pending.code, pending.pw, fails, hashFails),
                   wrote |-> FALSE, store |-> store]
           valid == IF pending.op = "password"
                    THEN VerifyMasterPassword(store, pending.pw, fails, hashFails)
                    ELSE twoFactor.ok
       IN /\ store' = twoFactor.store
          /\ IF valid THEN StepSucceeded(pending.op) ELSE StepFailed
  /\ pending' = NoPending
  /\ UNCHANGED call

\* handleBiometricAuth after its await
ResolveBiometric ==
  /\ pending.op = "biometric"
  /\ \E outcome \in {"success", "failure", "error"} :
       IF VerifyBiometric(outcome) THEN StepSucceeded("biometric") ELSE StepFailed
  /\ pending' = NoPending
  /\ UNCHANGED <<store, call>>

\* the 'Complete Password First' button of the biometric step
CompletePasswordFirst ==
  /\ OnScreen /\ RenderedStep(authStep, authSettings) = 2
  /\ ~completedAuth.password
  /\ authStep' = 1
  /\ lastEvent' = "other"
  /\ UNCHANGED <<store, route, alerts, authSettings, settingsLoaded, failedAttempts,
                 completedAuth, isLoading, password, pending, smVars, histVars,
                 confirmPresses, call>>

\* ------------------------------------------------------------ alerts and wipe
\* the OK button of 'Authentication Failed'
DismissAuthFailed ==
  /\ "authFailed" \in alerts /\ ~isAppInBackground
  /\ alerts' = alerts \ {"authFailed"}
  /\ lastEvent' = "other"
  /\ UNCHANGED <<store, route, screenVars, pending, smVars, histVars, confirmPresses, call>>

\* the store keys of this model among those emergencyWipe deletes
WipeKeys == {"biometricEnabled", "hasSetupPassword", "hasCompletedOnboarding"}


\* SecurityManager.emergencyWipe: each key is deleted unless its deletion throws
WipedStore(st, kept) ==
  [k \in DOMAIN st |-> IF k \in WipeKeys \ kept THEN NULL ELSE st[k]]

EmergencyWipe ==
  /\ \E kept \in {{}} \cup {{k} : k \in WipeKeys} : store' = WipedStore(store, kept)
  /\ UNCHANGED <<route, screenVars, pending, smVars, histVars, call>>

\* what the 'Reset App' button of the first dialog of showResetOption does
ResetOptionWipesAtOnce == "wipe"

ResetOptionOnPress == "finalConfirm"

\* showResetOption, first dialog: Cancel
ResetOfferCancel ==
  /\ "resetOffer" \in alerts /\ ~isAppInBackground
  /\ alerts' = alerts \ {"resetOffer"}
  /\ lastEvent' = "other"
  /\ confirmPresses' = 0
  /\ UNCHANGED <<store, route, screenVars, pending, smVars, histVars, call>>

\* showResetOption, first dialog: Reset App
ResetOfferConfirm ==
  /\ "resetOffer" \in alerts /\ ~isAppInBackground
  /\ confirmPresses' = confirmPresses + 1
  /\ IF ResetOptionOnPress = "finalConfirm"
     THEN /\ alerts' = (alerts \ {"resetOffer"}) \cup {"finalConfirm"}
          /\ lastEvent' = "other"
          /\ UNCHANGED <<store, route, screenVars, pending, smVars, histVars, call>>
     ELSE /\ alerts' = (alerts \ {"resetOffer"}) \cup {"wipeComplete"}
          /\ lastEvent' = "wipeReset"
          /\ EmergencyWipe

\* showResetOption, 'Final Confirmation': Cancel
FinalCancel ==
  /\ "finalConfirm" \in alerts /\ ~isAppInBackground
  /\ alerts' = alerts \ {"finalConfirm"}
  /\ lastEvent' = "other"
  /\ confirmPresses' = 0
  /\ UNCHANGED <<store, route, screenVars, pending, smVars, histVars, call>>

\* showResetOption, 'Final Confirmation': Delete Everything
FinalConfirm ==
  /\ "finalConfirm" \in alerts /\ ~isAppInBackground
  /\ confirmPresses' = confirmPresses + 1
  /\ alerts' = (alerts \ {"finalConfirm"}) \cup {"wipeComplete"}
  /\ lastEvent' = "wipeReset"
  /\ EmergencyWipe

\* the Emergency Wipe button of the screen (authenticate.tsx:543-561)
WipeButtonPress ==
  /\ OnScreen
  /\ alerts' = alerts \cup {"wipeButton"}
  /\ lastEvent' = "other"
  /\ UNCHANGED <<store, route, screenVars, pending, smVars, histVars, confirmPresses, call>>

WipeButtonCancel ==
  /\ "wipeButton" \in alerts /\ ~isAppInBackground
  /\ alerts' = alerts \ {"wipeButton"}
  /\ lastEvent' = "other"
  /\ UNCHANGED <<store, route, screenVars, pending, smVars, histVars, confirmPresses, call>>

WipeButtonConfirm ==
  /\ "wipeButton" \in alerts /\ ~isAppInBackground
  /\ alerts' = (alerts \ {"wipeButton"}) \cup {"wipeComplete"}
  /\ lastEvent' = "other"
  /\ EmergencyWipe
  /\ UNCHANGED confirmPresses

\* the OK button of 'Emergency Wipe Complete': router.replace('/')
WipeCompleteOk ==
  /\ "wipeComplete" \in alerts /\ ~isAppInBackground
  /\ alerts' = alerts \ {"wipeComplete"}
  /\ route' = "index"
  /\ MountScreen
  /\ confirmPresses' = IF alerts \cap {"resetOffer", "finalConfirm"} = {} THEN 0
                       ELSE confirmPresses
  /\ UNCHANGED <<store, smVars, call>>

\* ------------------------------------------------- SecurityManager: sessions
\* SecurityManager.getAuthenticationSettings().requiresAuth; a read error is true
RequiresAuth(st, fails) == fails \/ st.hasSetupPassword = "true"

\* the screen after router.replace('/authenticate'): a replace of the route
\* that is already shown may keep the mounted component or mount a new one
NavigateToAuthenticate(remount) ==
  /\ route' = "authenticate"
  /\ IF route = "authenticate" /\ ~remount
     THEN KeepScreen
     ELSE MountScreen

\* performSecureLogout: router.replace('/') unless the store throws
PerformSecureLogout(fails) ==
  IF fails
  THEN UNCHANGED route /\ KeepScreen
  ELSE /\ route' = "index"
       /\ MountScreen

\* the OK button of 'Session Expired'
SessionExpiredOk ==
  /\ "sessionExpired" \in alerts /\ ~isAppInBackground
  /\ alerts' = alerts \ {"sessionExpired"}
  /\ \E fails \in BOOLEAN : PerformSecureLogout(fails)
  /\ UNCHANGED <<store, smVars, confirmPresses, call>>

\* AppState 'background' | 'inactive'
AppBackground ==
  /\ initialized /\ ~isAppInBackground
  /\ isAppInBackground' = TRUE
  /\ lastEvent' = "other"
  /\ UNCHANGED <<store, route, alerts, screenVars, pending, initialized, isAuthenticated,
                 graceTimers, sessionTimer, histVars, confirmPresses, call>>

\* AppState 'active': handleAppForeground
AppForeground ==
  /\ initialized /\ isAppInBackground
  /\ isAppInBackground' = FALSE
  /\ \E expired \in BOOLEAN, fails \in BOOLEAN, remount \in BOOLEAN :
       IF isAuthenticated
       THEN UNCHANGED route /\ KeepScreen
       ELSE IF expired
       THEN PerformSecureLogout(fails)
       ELSE IF RequiresAuth(store, fails)
       THEN NavigateToAuthenticate(remount)
       ELSE UNCHANGED route /\ KeepScreen
  /\ UNCHANGED <<store, alerts, initialized, isAuthenticated, graceTimers, sessionTimer,
                 confirmPresses, call>>

\* the session timeout fires: handleSessionTimeout
SessionTimerFires ==
  /\ sessionTimer
  /\ sessionTimer' = FALSE
  /\ alerts' = IF isAppInBackground THEN alerts ELSE alerts \cup {"sessionExpired"}
  /\ lastEvent' = "other"
  /\ UNCHANGED <<store, route, screenVars, pending, initialized, isAuthenticated,
                 graceTimers, isAppInBackground, histVars, confirmPresses, call>>

\* a grace-period timeout of markAuthenticationCompleted fires
GraceTimerFires ==
  /\ graceTimers > 0
  /\ graceTimers' = graceTimers - 1
  /\ isAuthenticated' = FALSE
  /\ lastEvent' = "other"
  /\ UNCHANGED <<store, route, alerts, screenVars, pending, initialized, sessionTimer,
                 isAppInBackground, histVars, confirmPresses, call>>

\* the process is killed and started again: memory is lost, the store is kept
AppRestart ==
  /\ route # "index" \/ initialized
  /\ route' = "index"
  /\ alerts' = {}
  /\ FreshScreen
  /\ pending' = NoPending
  /\ initialized' = FALSE
  /\ isAuthenticated' = FALSE
  /\ graceTimers' = 0
  /\ sessionTimer' = FALSE
  /\ isAppInBackground' = FALSE
  /\ confirmPresses' = 0
  /\ lastEvent' = "restart"
  /\ UNCHANGED <<store, call>>

\* ------------------------------------------------------------ specification
Next ==
  \/ IndexCheckAppState
  \/ OnboardingDone
  \/ SetupSubmit
  \/ SetupInfoContinue
  \/ LoadAuthSettings
  \/ TypePassword
  \/ PressAuthenticate
  \/ PressBiometric
  \/ ResolveAuthenticate
  \/ ResolveBiometric
  \/ CompletePasswordFirst
  \/ DismissAuthFailed
  \/ ResetOfferCancel
  \/ ResetOfferConfirm
  \/ FinalCancel
  \/ FinalConfirm
  \/ WipeButtonPress
  \/ WipeButtonCancel
  \/ WipeButtonConfirm
  \/ WipeCompleteOk
  \/ SessionExpiredOk
  \/ AppBackground
  \/ AppForeground
  \/ SessionTimerFires
  \/ GraceTimerFires
  \/ AppRestart

Spec == Init /\ [][Next]_vars

\* ===================================================================== claims
Factors == {"password", "biometric", "twoFactor"}

\* the factors the loaded settings enable
Enabled(settings) == GetRequiredAuthMethods(settings)

\* C1: the vault tabs are shown only after checkAuthenticationComplete granted
\* access, and it grants access only when every factor that the loaded
\* settings enable has been verified in the current attempt.
AccessOnlyWithEveryEnabledFactor ==
  /\ route = "tabs" => granted
  /\ granted => \A f \in Enabled(authSettings) : verified[f]

AccessWithThreeFactors ==
  /\ granted /\ route = "tabs"
  /\ Enabled(authSettings) = Factors

\* C2: access is never granted without a successful verifyMasterPassword in
\* the current attempt, whatever the stored settings are.
AccessOnlyAfterMasterPassword == granted => verified.password

\* C4: the counter equals the number of failed verifications of the attempt
\* (each failure adds exactly one), and the reset offer has been shown exactly
\* when the counter has reached 5.
CounterCountsFailuresOfferAtFive ==
  /\ failedAttempts = failures
  /\ offered <=> failedAttempts >= ResetOfferAfter + 1

OfferedAtFifthFailure ==
  /\ offered /\ failures = 5 /\ failedAttempts = 5
  /\ "resetOffer" \in alerts

\* C5: once the counter has reached 5, no submission of the attempt leads to
\* access.
NoAccessAfterFiveFailures == ~(granted /\ failedAttempts >= 5)

\* C6: the wipe of the reset offer runs only after both of its dialogs have
\* been confirmed one after the other, and cancelling either dialog leaves
\* the store as it was.
LockoutWipeAfterTwoConfirmations ==
  [][ /\ lastEvent' = "wipeReset" => confirmPresses' = 2
      /\ (ResetOfferCancel \/ FinalCancel) => store' = store ]_vars

LockoutWipeRan ==
  /\ lastEvent = "wipeReset" /\ confirmPresses = 2
  /\ store.hasSetupPassword = NULL

\* C7: a step that verifies leaves the counter as it was, and the counter
\* decreases only when the screen is created anew.
CounterKeptBySuccess ==
  [][ /\ (\E f \in Factors : verified'[f] /\ ~verified[f])
           => failedAttempts' = failedAttempts
      /\ failedAttempts' < failedAttempts => lastEvent' \in {"mount", "restart"} ]_vars

SuccessAfterFailures == failedAttempts > 0 /\ verified.password /\ ~granted

\* C8: the counter goes back to zero only after access was granted or by a
\* restart of the app.
CounterResetOnlyByCompletionOrRestart ==
  [][ failedAttempts' < failedAttempts => (granted \/ lastEvent' = "restart") ]_vars

NextStepIsFirstOpenRequiredFactor ==
  [][ /\ (\E f \in Factors : verified'[f] /\ ~verified[f]) =>
           LET stepOf == [password |-> 1, biometric |-> 2, twoFactor |-> 3]
               open == {stepOf[f] : f \in {g \in Enabled(authSettings') : ~verified'[g]}}
           IN open # {} =>
                /\ authStep' \in open
                /\ \A n \in open : authStep' <= n
                /\ RenderedStep(authStep', authSettings') = authStep'
      /\ RenderedStep(authStep', authSettings') = 2 => authSettings'.biometricEnabled
      /\ RenderedStep(authStep', authSettings') = 3 => authSettings'.twoFactorEnabled ]_vars

BiometricStepAfterPassword ==
  /\ Enabled(authSettings) = Factors
  /\ verified = [password |-> TRUE, biometric |-> FALSE, twoFactor |-> FALSE]
  /\ authStep = 2 /\ route = "authenticate"

\* ======================================= AuthenticationManager.authenticateUser
NoResults == [passwordValid |-> FALSE, biometricValid |-> FALSE, twoFactorValid |-> FALSE,
              success |-> FALSE]

\* `env' holds what the environment does during the call: which of the verify
\* calls throw inside (shown as a read of the store that throws; a digest that
\* rejects is caught by the same catch block), and the answer of the biometric
\* prompt
AuthenticateUser(st, credentials, env) ==
  LET settings == GetAuthenticationSettings(st, env.settingsFail)
      hasPw == credentials.password # NULL
      passwordValid ==
        hasPw /\ VerifyMasterPassword(st, credentials.password, env.passwordFail, FALSE)
      askBiometric == settings.biometricEnabled /\ credentials.requestBiometric
      biometricValid == askBiometric /\ VerifyBiometric(env.biometric)
      twoFactor ==
        IF ~settings.twoFactorEnabled THEN Rejected(st)
        ELSE IF credentials.twoFactorCode # NULL
        THEN [ ok |-> Verify2FA(st, credentials.twoFactorCode, credentials.password,
                                env.twoFactorFail, FALSE),
               wrote |-> FALSE, store |-> st ]
        ELSE IF credentials.recoveryCode # NULL
        THEN VerifyRecoveryCode(st, credentials.recoveryCode, credentials.password,
                                env.twoFactorFail)
        ELSE Rejected(st)
      results == [passwordValid |-> passwordValid, biometricValid |-> biometricValid,
                  twoFactorValid |-> twoFactor.ok, success |-> FALSE]
  IN IF hasPw /\ ~passwordValid
     THEN [results |-> NoResults, store |-> st]
     ELSE IF askBiometric /\ ~biometricValid
     THEN [results |-> [NoResults EXCEPT !.passwordValid = passwordValid], store |-> st]
     ELSE IF settings.twoFactorEnabled /\ ~twoFactor.ok
     THEN [ results |-> [results EXCEPT !.twoFactorValid = FALSE],
            store |-> twoFactor.store ]
     ELSE [ results |-> [results EXCEPT !.success =
                           ValidateAuthenticationResults(results,
                                                         GetRequiredAuthMethods(settings))],
            store |-> twoFactor.store ]

\* AuthCredentials, and which awaited reads throw and what the biometric
\* prompt answers during the call
CallAuthenticateUser ==
  /\ \E credentials \in [ password : Passwords \cup {NULL},
                          requestBiometric : BOOLEAN,
                          twoFactorCode : TotpCodes \cup {NULL},
                          recoveryCode : {"c1", "c2", NULL} ],
        env \in [ settingsFail : BOOLEAN, passwordFail : BOOLEAN,
                  twoFactorFail : BOOLEAN, biometric : {"success", "failure", "error"} ] :
       LET r == AuthenticateUser(store, credentials, env)
       IN /\ store' = r.store
          /\ call' = [ op |-> "authenticateUser", credentials |-> credentials, env |-> env,
                       results |-> r.results, before |-> store ]
  /\ UNCHANGED <<route, alerts, screenVars, pending, smVars, histVars, confirmPresses,
                 lastEvent>>

\* the stores setup.tsx writes, and what emergencyWipe leaves of them
InitAuthUser ==
  LET set == {SetupStore(EmptyStore, b, t) : b \in BOOLEAN, t \in BOOLEAN}
  IN /\ store \in set \cup {WipedStore(st, {}) : st \in set}
     /\ call = NoCall
     /\ AppFresh

SpecAuthUser == InitAuthUser /\ [][CallAuthenticateUser]_vars

\* C3: authenticateUser reports success only if the supplied password verified
\* and every factor the store enables verified; without a password, or when
\* the settings cannot be read, it reports failure.
AuthenticateUserSuccessMeansAllVerified ==
  (call.op = "authenticateUser" /\ call.results.success) =>
     /\ call.credentials.password # NULL
     /\ call.results.passwordValid
     /\ call.before.biometricEnabled = "true" => call.results.biometricValid
     /\ call.before.twoFactorConfig.stored => call.results.twoFactorValid
     /\ ~call.env.settingsFail

\* ===================================== AuthenticationManager.verifyRecoveryCode
\* the sequences of pairwise distinct codes of at most MaxCodes codes: the
\* batches generateRecoveryCodes can hand out (random codes do not repeat)
Range(s) == {s[i] : i \in 1..Len(s)}

Batches ==
  {b \in UNION {[1..n -> Codes] : n \in 0..MaxCodes} : Cardinality(Range(b)) = Len(b)}

\* the codes a store holds for the owner of the master password
StoredCodes(st) ==
  Decrypt(st.twoFactorConfig.encryptedRecoveryCodes[1], RecoveryKey(MasterPassword)).codes

CallVerifyRecoveryCode ==
  /\ \E providedCode \in Codes, masterPassword \in Passwords, fails \in BOOLEAN :
       LET r == VerifyRecoveryCode(store, providedCode, masterPassword, fails)
       IN /\ store' = r.store
          /\ call' = [ op |-> "verifyRecoveryCode", code |-> providedCode,
                       pw |-> masterPassword, fails |-> fails, ok |-> r.ok,
                       wrote |-> r.wrote, before |-> store, used |-> call.accepted,
                       accepted |-> IF r.ok THEN call.accepted \cup {providedCode}
                                    ELSE call.accepted ]
  /\ UNCHANGED <<route, alerts, screenVars, pending, smVars, histVars, confirmPresses,
                 lastEvent>>

\* the store after setup with 2FA whose recovery batch is `batch'
InitRecovery ==
  /\ store \in {[SetupStore(EmptyStore, FALSE, TRUE) EXCEPT
                   !.twoFactorConfig.encryptedRecoveryCodes =
                      << Encrypt(CodeList(batch), RecoveryKey(MasterPassword)) >>] :
                 batch \in Batches}
  /\ call = NoCall
  /\ AppFresh

SpecRecovery == InitRecovery /\ [][CallVerifyRecoveryCode]_vars

\* C9: an accepted code is taken out of the stored batch and is never accepted
\* again, and every code that is still stored is accepted when it is presented
\* with the master password.
RecoveryCodeAcceptedOnce ==
  /\ call.accepted \cap Range(StoredCodes(store)) = {}
  /\ call.op = "verifyRecoveryCode" =>
       LET before == StoredCodes(call.before)
       IN /\ call.ok => /\ call.code \notin call.used
                        /\ call.code \in Range(before)
                        /\ Range(StoredCodes(store)) = Range(before) \ {call.code}
          /\ (call.code \in Range(before) /\ call.pw = MasterPassword /\ ~call.fails)
               => call.ok

SecondCodeAcceptedAfterFirst ==
  /\ call.op = "verifyRecoveryCode" /\ call.ok
  /\ Cardinality(call.accepted) = 2
  /\ StoredCodes(store) # <<>>

\* C10: a call with a code that is not stored returns false and writes nothing.
UnknownCodeRejectedWithoutWrite ==
  (call.op = "verifyRecoveryCode" /\ call.code \notin Range(StoredCodes(call.before))) =>
     /\ ~call.ok
     /\ ~call.wrote
     /\ store = call.before

UnknownCodeRejected ==
  /\ call.op = "verifyRecoveryCode"
  /\ call.code \notin Range(StoredCodes(call.before))
  /\ call.pw = MasterPassword /\ ~call.fails
  /\ StoredCodes(call.before) # <<>>

\* ============================ verifyRecoveryCode on the legacy format (C11)
\* a twoFactorConfig an earlier version wrote: one ciphertext per recovery code
InitLegacy ==
  /\ store \in {[SetupStore(EmptyStore, FALSE, TRUE) EXCEPT
                   !.twoFactorConfig.encryptedRecoveryCodes =
                      [i \in 1..Len(batch) |->
                         Encrypt(OneCode(batch[i]), RecoveryKey(MasterPassword))]] :
                 batch \in Batches}
  /\ call = NoCall
  /\ AppFresh

SpecLegacy == InitLegacy /\ [][CallVerifyRecoveryCode]_vars

\* C11: every code of a legacy configuration, whatever the number of its
\* ciphertexts (one included), is accepted when it is presented with the master
\* password, and is not accepted a second time.
LegacyCodeAcceptedOnce ==
  call.op = "verifyRecoveryCode" =>
     LET blobs == call.before.twoFactorConfig.encryptedRecoveryCodes
         \* the codes the legacy store holds for the owner of the master password
         legacyCodes == {Decrypt(blobs[i], RecoveryKey(MasterPassword)).codes[1] :
                           i \in 1..Len(blobs)}
     IN /\ (call.code \in legacyCodes /\ call.pw = MasterPassword /\ ~call.fails)
             => call.ok
        /\ call.ok => call.code \notin call.used

\* ================================ AuthenticationManager.verifyMasterPassword
CallVerifyMasterPassword ==
  /\ \E pw \in Passwords, fails \in BOOLEAN, hashFails \in BOOLEAN :
       call' = [ op |-> "verifyMasterPassword", pw |-> pw, fails |-> fails,
                 hashFails |-> hashFails,
                 try |-> VerifyMasterPasswordTry(store, pw, fails, hashFails),
                 result |-> VerifyMasterPassword(store, pw, fails, hashFails) ]
  /\ UNCHANGED <<store, route, alerts, screenVars, pending, smVars, histVars, confirmPresses,
                 lastEvent>>

\* what the key masterPasswordHash can hold: nothing, the hash setup stored,
\* the hash of another password, a string that is no hash of any password;
\* what the key passwordSalt can hold: nothing, the empty string, the salt of
\* setup, another string
InitVerifyPassword ==
  LET truncatedHash == <<MasterPassword, Salt, "cut">>
      storedHashes == {<<>>, HashPassword(MasterPassword, Salt),
                       HashPassword(WrongPassword, Salt), truncatedHash}
      storedSalts == {NULL, "", Salt, "s2"}
  IN /\ store \in {[SetupStore(EmptyStore, FALSE, FALSE) EXCEPT
                       !.masterPasswordHash = h, !.passwordSalt = s] :
                      h \in storedHashes, s \in storedSalts}
     /\ call = NoCall
     /\ AppFresh

SpecVerifyPassword == InitVerifyPassword /\ [][CallVerifyMasterPassword]_vars

\* C12: verifyMasterPassword returns false, and nothing escapes its catch
\* block, when the stored hash or salt is missing or malformed, when a read of
\* the store throws, or when the hash computation fails.
VerifyPasswordFalseOnBadRecordOrError ==
  call.op = "verifyMasterPassword" =>
     LET \* the stored record is one setup wrote for a password
         wellFormed == /\ store.passwordSalt = Salt
                       /\ store.masterPasswordHash \in
                            {HashPassword(p, Salt) : p \in Passwords}
     IN /\ call.result \in BOOLEAN
        /\ (~wellFormed \/ call.fails \/ call.hashFails) => call.result = FALSE

HashFailureOnGoodRecord ==
  /\ call.op = "verifyMasterPassword"
  /\ store.passwordSalt = Salt /\ store.masterPasswordHash = HashPassword(call.pw, Salt)
  /\ call.hashFails /\ ~call.fails
  /\ call.try = "throws" /\ call.result = FALSE

\* ========================================= AuthenticationManager.verify2FA
\* the candidates of a direct call: a code of the stored secret inside the
\* window, a code of what a wrong key decrypts to, any other code; the password
\* argument is undefined when authenticateUser was given none
CallVerify2FA ==
  /\ \E providedCode \in TotpCodes \cup {"stray"}, pw \in Passwords \cup {NULL},
        fails \in BOOLEAN, hashFails \in BOOLEAN :
       call' = [ op |-> "verify2FA", code |-> providedCode, pw |-> pw, fails |-> fails,
                 hashFails |-> hashFails,
                 try |-> Verify2FATry(store, providedCode, pw, fails, hashFails),
                 result |-> Verify2FA(store, providedCode, pw, fails, hashFails) ]
  /\ UNCHANGED <<store, route, alerts, screenVars, pending, smVars, histVars, confirmPresses,
                 lastEvent>>

\* what the key twoFactorConfig can hold: nothing, the config of setup2FA, a
\* config whose encryptedSecret is no ciphertext, a string that is no JSON
InitVerify2FA ==
  LET with2FA == SetupStore(EmptyStore, FALSE, TRUE)
  IN /\ store \in { SetupStore(EmptyStore, FALSE, FALSE),
                     with2FA,
                     [with2FA EXCEPT !.twoFactorConfig.encryptedSecret = Malformed],
                     [with2FA EXCEPT !.twoFactorConfig = UnparsedConfig] }
     /\ call = NoCall
     /\ AppFresh

SpecVerify2FA == InitVerify2FA /\ [][CallVerify2FA]_vars

\* C13: when the TOTP computation throws, or the stored record is absent,
\* cannot be read, does not parse or its secret does not decrypt, verify2FA
\* returns false whatever the candidate is.
Verify2FAFalseOnError ==
  call.op = "verify2FA" =>
     LET \* the stored record can be read and its secret is a ciphertext
         readable == /\ store.twoFactorConfig.stored
                     /\ store.twoFactorConfig # UnparsedConfig
                     /\ store.twoFactorConfig.encryptedSecret # Malformed
     IN /\ call.result \in BOOLEAN
        /\ (call.hashFails \/ call.fails \/ ~readable) => call.result = FALSE

TotpThrowsOnGoodCode ==
  /\ call.op = "verify2FA"
  /\ store.twoFactorConfig.stored /\ store.twoFactorConfig # UnparsedConfig
  /\ store.twoFactorConfig.encryptedSecret # Malformed
  /\ call.pw = MasterPassword /\ call.code = "good"
  /\ call.hashFails /\ ~call.fails
  /\ call.result = FALSE

\* ============================================ TOTPManager (utils/TOTPManager.ts)
\* Strings are sequences of one-character strings.  HMAC is not computed: the
\* 31-bit number that HMAC and the dynamic truncation yield for the decoded key
\* and a counter is given by `digest', a function of the counter that the
\* initial state draws.
DefaultDigits == 6
DefaultPeriod == 30
MinSecretLength == 16

\* WINDOW_SIZE: time steps accepted before and after the current one
NoWindow == 1 - 1

WindowSize == 1

Letters ==
  << "A", "B", "C", "D", "E", "F", "G", "H", "I", "J", "K", "L", "M",
     "N", "O", "P", "Q", "R", "S", "T", "U", "V", "W", "X", "Y", "Z" >>
LowerLetters ==
  << "a", "b", "c", "d", "e", "f", "g", "h", "i", "j", "k", "l", "m",
     "n", "o", "p", "q", "r", "s", "t", "u", "v", "w", "x", "y", "z" >>
Base32Alphabet == Letters \o << "2", "3", "4", "5", "6", "7" >>

\* String.prototype.toUpperCase
ToUpperCase(str) ==
  LET upperChar(c) ==
        IF \E i \in 1..Len(LowerLetters) : LowerLetters[i] = c
        THEN Letters[CHOOSE i \in 1..Len(LowerLetters) : LowerLetters[i] = c]
        ELSE c
  IN [i \in 1..Len(str) |-> upperChar(str[i])]

\* the character class [A-Z2-7]
IsBase32Char(c) == \E i \in 1..Len(Base32Alphabet) : Base32Alphabet[i] = c

\* isValidSecret: /^[A-Z2-7]+=*$/ on the upper-cased secret, and length >= 16
IsValidSecret(secret) ==
  LET up == ToUpperCase(secret)
  IN /\ \E k \in 1..Len(up) :
          /\ \A i \in 1..k : IsBase32Char(up[i])
          /\ \A i \in (k + 1)..Len(up) : up[i] = "="
     /\ Len(secret) >= MinSecretLength

\* base32Decode: upper-case, drop what is not [A-Z2-7], 5 bits per character,
\* whole bytes only
Base32Decode(encoded) ==
  LET cleanInput == SelectSeq(ToUpperCase(encoded), IsBase32Char)
      index(c) == (CHOOSE i \in 1..Len(Base32Alphabet) : Base32Alphabet[i] = c) - 1
      bit(j) == (index(cleanInput[(j \div 5) + 1]) \div (2 ^ (4 - (j % 5)))) % 2
      byte(i) == bit(8 * i) * 128 + bit(8 * i + 1) * 64 + bit(8 * i + 2) * 32
                   + bit(8 * i + 3) * 16 + bit(8 * i + 4) * 8 + bit(8 * i + 5) * 4
                   + bit(8 * i + 6) * 2 + bit(8 * i + 7)
  IN [i \in 1..((5 * Len(cleanInput)) \div 8) |-> byte(i - 1)]

\* Number.prototype.toString for a natural number
RECURSIVE NumberToString(_)
NumberToString(n) ==
  LET digitChars == << "0", "1", "2", "3", "4", "5", "6", "7", "8", "9" >>
  IN IF n < 10 THEN << digitChars[n + 1] >>
     ELSE NumberToString(n \div 10) \o << digitChars[(n % 10) + 1] >>

\* String.prototype.padStart(length, '0')
PadStart(str, length) ==
  IF Len(str) >= length THEN str
  ELSE [i \in 1..(length - Len(str)) |-> "0"] \o str

\* constantTimeCompare
ConstantTimeCompare(a, b) ==
  IF Len(a) # Len(b) THEN FALSE
  ELSE \A i \in 1..Len(a) : a[i] = b[i]

\* Math.floor(Date.now() / 1000 / period)
TimeStepAt(nowMs, period) == nowMs \div (1000 * period)

\* hmac: the digest primitive is called for the inner and for the outer hash,
\* and once more before them for a key longer than the block of 64 bytes
HashCallsPerHmac(key) == IF Len(key) > 64 THEN 3 ELSE 2

\* generateTOTPForTimeStep with the default config.  setUint32 keeps a counter
\* below 2^32, which every time step of the model is.  When the digest
\* primitive rejects, its first call does and the promise rejects.
GenerateTOTPForTimeStep(secret, timeStep, digest, hashFails) ==
  LET secretBytes == Base32Decode(secret)
      code == digest[timeStep] % (10 ^ DefaultDigits)
  IN IF hashFails
     THEN [threw |-> TRUE, code |-> <<>>, hashCalls |-> 1, key |-> secretBytes]
     ELSE [ threw |-> FALSE,
            code |-> PadStart(NumberToString(code), DefaultDigits),
            hashCalls |-> HashCallsPerHmac(secretBytes),
            key |-> secretBytes ]

\* generateTOTP
GenerateTOTP(secret, nowMs, digest, hashFails) ==
  GenerateTOTPForTimeStep(secret, TimeStepAt(nowMs, DefaultPeriod), digest, hashFails)

\* the loop of verifyTOTP returns at the first offset whose code matches
LastMatch(hits) == CHOOSE i \in hits : \A j \in hits : j <= i

FirstMatch(hits) == CHOOSE i \in hits : \A j \in hits : i <= j

\* verifyTOTP with the default config; offset i stands for the loop index
\* i - WINDOW_SIZE
VerifyTOTP(token, secret, nowMs, digest, hashFails) ==
  LET currentTimeStep == TimeStepAt(nowMs, DefaultPeriod)
      stepOf(i) == (currentTimeStep + i) - WindowSize
      expectedToken(i) == GenerateTOTPForTimeStep(secret, stepOf(i), digest, hashFails)
      hits == {i \in 0..(2 * WindowSize) : ConstantTimeCompare(token, expectedToken(i).code)}
      perStep == HashCallsPerHmac(Base32Decode(secret))
  IN IF hashFails
     THEN [threw |-> TRUE, valid |-> FALSE, hasStep |-> FALSE, timeStep |-> 0, hashCalls |-> 1]
     ELSE IF hits # {}
     THEN [ threw |-> FALSE, valid |-> TRUE, hasStep |-> TRUE,
            timeStep |-> stepOf(FirstMatch(hits)),
            hashCalls |-> (FirstMatch(hits) + 1) * perStep ]
     ELSE [ threw |-> FALSE, valid |-> FALSE, hasStep |-> FALSE, timeStep |-> 0,
            hashCalls |-> (2 * WindowSize + 1) * perStep ]

\* AuthenticationManager.generateTOTPCode(secret, timeStep?): generateTOTP, and
\* in its catch block a code computed from the clock and the secret's length;
\* timeStep = 0 stands for the argument left out
GenerateTOTPCode(secret, timeStep, nowMs, digest, hashFails) ==
  LET r == GenerateTOTP(secret, nowMs, digest, hashFails)
      now == IF timeStep # 0 THEN timeStep ELSE nowMs \div 1000
      timeCounter == now \div 30
      code == (timeCounter * Len(secret)) % 1000000
  IN IF r.threw
     THEN [ threw |-> FALSE, code |-> PadStart(NumberToString(code), 6), hashCalls |-> r.hashCalls,
            key |-> r.key ]
     ELSE r

\* ------------------------------------------------ direct calls of the TOTP code
Steps == 0..MaxStep

\* Date.now() in ms: the first, the middle and the last instants of the
\* periods 1 and 2
Instants == {30000, 44999, 45000, 59999, 60000, 74999, 75000, 88999}

\* the code of a digest at a time step
CodeAt(digest, timeStep) ==
  PadStart(NumberToString(digest[timeStep] % (10 ^ DefaultDigits)), DefaultDigits)

CallGenerateTOTP ==
  /\ call.op = "none"
  /\ \E nowMs \in Instants, hashFails \in BOOLEAN :
       call' = [ op |-> "generateTOTP", accepted |-> {}, secret |-> call.secret,
                 digest |-> call.digest, nowMs |-> nowMs, hashFails |-> hashFails,
                 result |-> GenerateTOTP(call.secret, nowMs, call.digest, hashFails) ]
  /\ UNCHANGED <<store, route, alerts, screenVars, pending, smVars, histVars, confirmPresses,
                 lastEvent>>

\* the timeStep argument is left out (0 is falsy), or a number
CallGenerateTOTPCode ==
  /\ call.op = "none"
  /\ \E nowMs \in Instants, timeStep \in {0, 45}, hashFails \in BOOLEAN :
       call' = [ op |-> "generateTOTPCode", accepted |-> {}, secret |-> call.secret,
                 digest |-> call.digest, nowMs |-> nowMs, timeStep |-> timeStep,
                 hashFails |-> hashFails,
                 result |-> GenerateTOTPCode(call.secret, timeStep, nowMs, call.digest,
                                             hashFails) ]
  /\ UNCHANGED <<store, route, alerts, screenVars, pending, smVars, histVars, confirmPresses,
                 lastEvent>>

\* the tokens: the codes of the digest, an unpadded code, the code of no time step
CallVerifyTOTP ==
  /\ call.op = "none"
  /\ \E nowMs \in Instants,
        token \in {CodeAt(call.digest, st) : st \in Steps}
                    \cup {<< "7" >>, << "0", "0", "0", "0", "0", "0" >>},
        hashFails \in BOOLEAN :
       call' = [ op |-> "verifyTOTP", accepted |-> {}, secret |-> call.secret,
                 digest |-> call.digest, nowMs |-> nowMs, token |-> token,
                 hashFails |-> hashFails,
                 result |-> VerifyTOTP(token, call.secret, nowMs, call.digest, hashFails) ]
  /\ UNCHANGED <<store, route, alerts, screenVars, pending, smVars, histVars, confirmPresses,
                 lastEvent>>

\* The secrets: 'JBSWY3DPEHPK3PXP'; 'ABC'; 'JBSWY3DPEHPK3P1!'; 'jbswy3dpehpk3pxp='.
\* The digests: the numbers HMAC and truncation yield per time step, 7 and
\* 1000007 giving the same code, and two digests whose codes differ from time
\* step to time step.
InitTotp ==
  LET testSecret ==
        << "J", "B", "S", "W", "Y", "3", "D", "P", "E", "H", "P", "K", "3", "P", "X", "P" >>
      shortSecret == << "A", "B", "C" >>
      badSymbolSecret ==
        << "J", "B", "S", "W", "Y", "3", "D", "P", "E", "H", "P", "K", "3", "P", "1", "!" >>
      lowerPaddedSecret ==
        << "j", "b", "s", "w", "y", "3", "d", "p", "e", "h", "p", "k", "3", "p", "x", "p", "=" >>
      spreadDigest(k) == [st \in Steps |-> 1000 * (st + 1) * k + 7]
      digests == [Steps -> {7, 42, 1000007}] \cup {spreadDigest(k) : k \in 1..2}
  IN /\ store = EmptyStore
     /\ call \in {[op |-> "none", accepted |-> {}, secret |-> secret, digest |-> digest] :
                    secret \in {testSecret, shortSecret, badSymbolSecret, lowerPaddedSecret},
                    digest \in digests}
     /\ AppFresh

SpecTotp ==
  InitTotp /\ [][ \/ CallGenerateTOTP
              \/ CallGenerateTOTPCode
              \/ CallVerifyTOTP ]_vars

\* C14: a code generation during which the digest primitive fails throws and
\* hands out no code.
NoCodeWhenHashFails ==
  (call.op \in {"generateTOTP", "generateTOTPCode"} /\ call.hashFails) =>
     /\ call.result.threw
     /\ call.result.code = <<>>

\* C15: verifyTOTP at time step s is valid exactly for the codes of s-1, s and
\* s+1, reports the first of these steps, in this order, whose code the
\* candidate equals, and reports no step when it is invalid.
VerifyValidIffInWindowFirstStep ==
  (call.op = "verifyTOTP" /\ ~call.hashFails) =>
     LET s == TimeStepAt(call.nowMs, DefaultPeriod)
         code(k) == CodeAt(call.digest, k)
         r == call.result
     IN /\ r.valid <=> call.token \in {code(s - 1), code(s), code(s + 1)}
        /\ r.valid => /\ r.hasStep
                      /\ r.timeStep = IF call.token = code(s - 1) THEN s - 1
                                      ELSE IF call.token = code(s) THEN s
                                      ELSE s + 1
        /\ ~r.valid => ~r.hasStep

FirstOfTwoMatchingSteps ==
  /\ call.op = "verifyTOTP" /\ ~call.hashFails
  /\ LET s == TimeStepAt(call.nowMs, DefaultPeriod)
     IN /\ call.token = CodeAt(call.digest, s - 1)
        /\ call.token = CodeAt(call.digest, s + 1)
        /\ call.token # CodeAt(call.digest, s)
        /\ call.result.valid /\ call.result.timeStep = s - 1

\* C16: verify at t+15 s accepts the code generated at t, and verify at t
\* rejects the code of t+61 s when different time steps yield different codes.
AcceptedAfter15RejectedFrom61 ==
  (call.op = "verifyTOTP" /\ ~call.hashFails) =>
     /\ call.token = GenerateTOTP(call.secret, call.nowMs - 15000, call.digest, FALSE).code
          => call.result.valid
     /\ ( /\ \A a \in Steps, b \in Steps :
                a # b => CodeAt(call.digest, a) # CodeAt(call.digest, b)
          /\ call.token = GenerateTOTP(call.secret, call.nowMs + 61000, call.digest, FALSE).code )
          => ~call.result.valid

AcceptedAcrossPeriodBoundary ==
  /\ call.op = "verifyTOTP" /\ ~call.hashFails
  /\ \A a \in Steps, b \in Steps : a # b => CodeAt(call.digest, a) # CodeAt(call.digest, b)
  /\ call.token = GenerateTOTP(call.secret, call.nowMs - 15000, call.digest, FALSE).code
  /\ TimeStepAt(call.nowMs - 15000, DefaultPeriod) # TimeStepAt(call.nowMs, DefaultPeriod)
  /\ call.result.valid

\* C17: generate and verify answer a secret that isValidSecret rejects with a
\* validation failure, without a call of the digest primitive.
InvalidSecretFailsBeforeHashing ==
  (call.op \in {"generateTOTP", "verifyTOTP"} /\ ~IsValidSecret(call.secret)) =>
     /\ call.result.threw
     /\ call.result.hashCalls = 0

\* ------------------------------------------- the grace period on a clock
\* SecurityManager.authenticationGracePeriod, in ms
AuthenticationGracePeriod == 5000
\* SecurityManager.sessionTimeout, in ms, before a preference is loaded or set
DefaultSessionTimeout == 300000

\* The grace flag against Date.now(): `call` carries the clock (ms), the
\* deadlines of the pending grace timeouts in the order they were set, the
\* number of calls of markAuthenticationCompleted and the instant of the latest.
\* The clock is read every second, and a timeout runs at its deadline, before
\* the clock moves on. Of the session timer `call` carries the pending
\* timeouts (deadline, and the delay each was set with), lastActivity and
\* sessionTimeout; `fired`, `expiredIn` and `logout` record how the handler
\* last ran and what became of the logout since the timer was last set.

\* resetSessionTimer without the clearTimeout
ResetSessionTimerKeeping(c) ==
  [c EXCEPT !.timers = Append(@, [at |-> c.now + c.sessionTimeout,
                                  timeout |-> c.sessionTimeout]),
            !.lastActivity = c.now,
            !.expiredIn = "none",
            !.logout = "none"]

\* resetSessionTimer: clearTimeout of the pending timer, lastActivity =
\* Date.now(), setTimeout(handleSessionTimeout, sessionTimeout)
ResetSessionTimer(c) ==
  [c EXCEPT !.timers = << [at |-> c.now + c.sessionTimeout, timeout |-> c.sessionTimeout] >>,
            !.lastActivity = c.now,
            !.expiredIn = "none",
            !.logout = "none"]

\* SecurityManager.markAuthenticationCompleted: the flag, resetSessionTimer, and
\* setTimeout(..., authenticationGracePeriod) with no clearTimeout of an earlier one
CallMarkAuthenticationCompleted ==
  /\ call.marks < MaxMarks
  /\ isAuthenticated' = TRUE
  /\ sessionTimer' = TRUE
  /\ call' = [ResetSessionTimer(call) EXCEPT
                !.deadlines = Append(@, call.now + AuthenticationGracePeriod),
                !.marks = @ + 1,
                !.markedAt = call.now]
  /\ graceTimers' = Len(call'.deadlines)
  /\ lastEvent' = "other"
  /\ UNCHANGED <<store, route, alerts, screenVars, pending, initialized,
                 isAppInBackground, histVars, confirmPresses>>

\* the callback of the oldest grace timeout runs
GraceTimeout ==
  /\ call.deadlines # <<>> /\ Head(call.deadlines) <= call.now
  /\ isAuthenticated' = FALSE
  /\ call' = [call EXCEPT !.deadlines = Tail(call.deadlines)]
  /\ graceTimers' = Len(call'.deadlines)
  /\ lastEvent' = "other"
  /\ UNCHANGED <<store, route, alerts, screenVars, pending, initialized, sessionTimer,
                 isAppInBackground, histVars, confirmPresses>>

\* a second passes; no timeout is overdue
Tick ==
  /\ call.now < MaxClock * 1000
  /\ IF call.deadlines = <<>> THEN TRUE ELSE Head(call.deadlines) > call.now
  /\ call' = [call EXCEPT !.now = call.now + 1000]
  /\ UNCHANGED <<store, route, alerts, screenVars, pending, smVars, histVars,
                 confirmPresses, lastEvent>>

\* a set-up app after SecurityManager.initializeSecurity, showing the tabs
InitGrace ==
  /\ store \in {SetupStore(EmptyStore, b, t) : b \in BOOLEAN, t \in BOOLEAN}
  /\ call = [op |-> "grace", accepted |-> {}, now |-> 0, deadlines |-> <<>>,
             marks |-> 0, markedAt |-> 0,
             timers |-> << [at |-> DefaultSessionTimeout,
                            timeout |-> DefaultSessionTimeout] >>,
             lastActivity |-> 0, sessionTimeout |-> DefaultSessionTimeout,
             fired |-> [after |-> 0, timeout |-> 0],
             expiredIn |-> "none", logout |-> "none"]
  /\ route = "tabs"
  /\ alerts = {}
  /\ authSettings = NoSettings
  /\ settingsLoaded = FALSE
  /\ authStep = 1
  /\ failedAttempts = 0
  /\ completedAuth = NoneDone
  /\ isLoading = FALSE
  /\ password = ""
  /\ pending = NoPending
  /\ initialized = TRUE
  /\ isAuthenticated = FALSE
  /\ graceTimers = 0
  /\ sessionTimer = TRUE
  /\ isAppInBackground = FALSE
  /\ verified = NoneDone
  /\ granted = FALSE
  /\ offered = FALSE
  /\ failures = 0
  /\ confirmPresses = 0
  /\ lastEvent = "init"

SpecGrace ==
  InitGrace /\ [][ \/ CallMarkAuthenticationCompleted
              \/ GraceTimeout
              \/ Tick
              \/ AppBackground
              \/ AppForeground ]_vars

\* C20: for authenticationGracePeriod after markAuthenticationCompleted the
\* grace flag is set and the app coming to the foreground neither navigates to
\* the authentication screen nor logs out; once the period has elapsed and its
\* timeout has run, the flag is clear.
GraceFlagSetForGracePeriod ==
  [][ LET InGracePeriod(c) ==
            c.marks > 0 /\ c.now < c.markedAt + AuthenticationGracePeriod
      IN /\ InGracePeriod(call') => isAuthenticated'
         /\ (InGracePeriod(call) /\ isAppInBackground /\ ~isAppInBackground')
              => (route' = route /\ UNCHANGED screenVars)
         /\ (call'.marks > 0 /\ ~InGracePeriod(call') /\ call'.deadlines = <<>>)
              => ~isAuthenticated' ]_vars

\* C21: a call of markAuthenticationCompleted cancels the grace timeout that is
\* still pending, so at most one is pending at any time, the timeout that
\* clears the flag is the one of the latest call, and the flag is set for the
\* whole grace period after that call.
EarlierGraceTimeoutCancelled ==
  /\ Len(call.deadlines) <= 1
  /\ call.deadlines # <<>> =>
       /\ Head(call.deadlines) = call.markedAt + AuthenticationGracePeriod
       /\ call.now < Head(call.deadlines) => isAuthenticated

\* ------------------------------------------- the session timer on a clock
\* SecurityManager.trackUserActivity
CallTrackUserActivity ==
  /\ call' = ResetSessionTimer(call)
  /\ call' # call
  /\ sessionTimer' = TRUE
  /\ lastEvent' = "other"
  /\ UNCHANGED <<store, route, alerts, screenVars, pending, initialized, isAuthenticated,
                 graceTimers, isAppInBackground, histVars, confirmPresses>>

\* SecurityManager.setSessionTimeout with the shortest timeout setup.tsx
\* offers; when the write of the preference throws, the timer is not set again
CallSetSessionTimeout ==
  /\ \E timeoutMs \in {30000}, fails \in BOOLEAN :
       LET c == [call EXCEPT !.sessionTimeout = timeoutMs]
       IN call' = IF fails THEN c ELSE ResetSessionTimer(c)
  /\ call' # call
  /\ sessionTimer' = (call'.timers # <<>>)
  /\ lastEvent' = "other"
  /\ UNCHANGED <<store, route, alerts, screenVars, pending, initialized, isAuthenticated,
                 graceTimers, isAppInBackground, histVars, confirmPresses>>

\* handleSessionTimeout that shows no alert
HandleSessionTimeoutSilent(inBackground, shown) == shown

\* handleSessionTimeout: in the background clearSensitiveData only, else the
\* 'Session Expired' alert
HandleSessionTimeout(inBackground, shown) ==
  IF inBackground THEN shown ELSE shown \cup {"sessionExpired"}

\* the callback of the oldest session timeout runs; timeouts run in the order
\* of their deadlines, so the grace timeouts that are due earlier run first
SessionTimeout ==
  /\ call.timers # <<>> /\ Head(call.timers).at <= call.now
  /\ IF call.deadlines = <<>> THEN TRUE ELSE Head(call.deadlines) > Head(call.timers).at
  /\ alerts' = HandleSessionTimeout(isAppInBackground, alerts)
  /\ call' = [call EXCEPT
                !.timers = Tail(@),
                !.fired = [after |-> call.now - call.lastActivity,
                           timeout |-> Head(call.timers).timeout],
                !.expiredIn = IF isAppInBackground THEN "background" ELSE "foreground"]
  /\ sessionTimer' = (call'.timers # <<>>)
  /\ lastEvent' = "other"
  /\ UNCHANGED <<store, route, screenVars, pending, initialized, isAuthenticated,
                 graceTimers, isAppInBackground, histVars, confirmPresses>>

\* five seconds pass; in the foreground no timeout is overdue, in the
\* background the timeouts may be held back until the app is active again
SessionTick ==
  /\ call.now < MaxClock * 5000
  /\ \/ isAppInBackground
     \/ /\ IF call.deadlines = <<>> THEN TRUE ELSE Head(call.deadlines) > call.now
        /\ IF call.timers = <<>> THEN TRUE ELSE Head(call.timers).at > call.now
  /\ call' = [call EXCEPT !.now = call.now + 5000]
  /\ UNCHANGED <<store, route, alerts, screenVars, pending, smVars, histVars,
                 confirmPresses, lastEvent>>

\* handleAppForeground that counts a session as expired from sessionTimeout on
SessionForegroundExpiresAtTimeout ==
  /\ initialized /\ isAppInBackground
  /\ isAppInBackground' = FALSE
  /\ \E fails \in BOOLEAN, remount \in BOOLEAN :
       IF isAuthenticated
       THEN UNCHANGED <<route, call>> /\ KeepScreen
       ELSE IF call.now - call.lastActivity >= call.sessionTimeout
       THEN /\ PerformSecureLogout(fails)
            /\ call' = [call EXCEPT !.logout = IF fails THEN "failed" ELSE "done"]
       ELSE /\ IF RequiresAuth(store, fails)
               THEN NavigateToAuthenticate(remount)
               ELSE UNCHANGED route /\ KeepScreen
            /\ UNCHANGED call
  /\ UNCHANGED <<store, alerts, initialized, isAuthenticated, graceTimers, sessionTimer,
                 confirmPresses>>

\* AppState 'active': handleAppForeground with Date.now() - lastActivity
SessionForeground ==
  /\ initialized /\ isAppInBackground
  /\ isAppInBackground' = FALSE
  /\ \E fails \in BOOLEAN, remount \in BOOLEAN :
       IF isAuthenticated
       THEN UNCHANGED <<route, call>> /\ KeepScreen
       ELSE IF call.now - call.lastActivity > call.sessionTimeout
       THEN /\ PerformSecureLogout(fails)
            /\ call' = [call EXCEPT !.logout = IF fails THEN "failed" ELSE "done"]
       ELSE /\ IF RequiresAuth(store, fails)
               THEN NavigateToAuthenticate(remount)
               ELSE UNCHANGED route /\ KeepScreen
            /\ UNCHANGED call
  /\ UNCHANGED <<store, alerts, initialized, isAuthenticated, graceTimers, sessionTimer,
                 confirmPresses>>

\* the OK button of 'Session Expired': performSecureLogout
SessionExpiredDismissed ==
  /\ "sessionExpired" \in alerts /\ ~isAppInBackground
  /\ alerts' = alerts \ {"sessionExpired"}
  /\ \E fails \in BOOLEAN :
       /\ PerformSecureLogout(fails)
       /\ call' = [call EXCEPT !.logout = IF fails THEN "failed" ELSE "done"]
  /\ UNCHANGED <<store, smVars, confirmPresses>>

SpecSession ==
  InitGrace /\ [][ \/ CallMarkAuthenticationCompleted
              \/ CallTrackUserActivity
              \/ CallSetSessionTimeout
              \/ GraceTimeout
              \/ SessionTimeout
              \/ SessionTick
              \/ AppBackground
              \/ SessionForeground
              \/ SessionExpiredDismissed ]_vars

NoSessionTimerOutsideProtectedFlow ==
  route \in {"onboarding", "setup"} => ~sessionTimer

\* C25: a step in which performSecureLogout leaves for the root screen (from
\* the 'Session Expired' alert or from handleAppForeground) ends with
\* isAuthenticated false and no session timeout pending.
LogoutExitsProtectedFlow ==
  [][ (route' = "index" /\ lastEvent' = "mount" /\ "wipeComplete" \notin alerts)
        => (~isAuthenticated' /\ ~sessionTimer') ]_vars

\* C26: once 'Emergency Wipe Complete' is shown, the store holds no
\* authentication data: masterPasswordHash, passwordSalt, twoFactorConfig,
\* hasSetupPassword and biometricEnabled are absent.
WipeLeavesNoAuthenticationData ==
  "wipeComplete" \in alerts =>
    /\ store.masterPasswordHash = <<>>
    /\ store.passwordSalt = NULL
    /\ ~store.twoFactorConfig.stored
    /\ store.hasSetupPassword = NULL
    /\ store.biometricEnabled = NULL

\* ============================================== CryptoUtils on bytes
\* A string is the sequence of its UTF-16 code units, a Uint8Array the
\* sequence of its bytes, a base64 text the sequence of its symbols: 0..63 the
\* alphabet, 64 the padding '=', 65 any other character.

\* new TextEncoder().encode(str): UTF-8, a surrogate pair is one code point and
\* a lone surrogate is encoded as U+FFFD
TextEncode(str) ==
  LET RECURSIVE enc(_)
      cont(n) == 128 + (n % 64)
      enc(i) ==
        IF i > Len(str) THEN <<>>
        ELSE LET u == str[i]
                 paired == /\ u >= 55296 /\ u <= 56319 /\ i < Len(str)
                           /\ str[i + 1] >= 56320 /\ str[i + 1] <= 57343
                 cp == 65536 + (u - 55296) * 1024 + (str[i + 1] - 56320)
             IN IF u < 128 THEN <<u>> \o enc(i + 1)
                ELSE IF u < 2048 THEN <<192 + (u \div 64), cont(u)>> \o enc(i + 1)
                ELSE IF paired
                THEN <<240 + (cp \div 262144), cont(cp \div 4096), cont(cp \div 64), cont(cp)>>
                       \o enc(i + 2)
                ELSE IF u >= 55296 /\ u <= 57343 THEN <<239, 191, 189>> \o enc(i + 1)
                ELSE <<224 + (u \div 4096), cont(u \div 64), cont(u)>> \o enc(i + 1)
  IN enc(1)

\* new TextDecoder().decode(bytes): UTF-8 with U+FFFD for every ill-formed
\* sequence, and a byte order mark at the start is not part of the result
TextDecode(bytes) ==
  LET RECURSIVE dec(_)
      n == Len(bytes)
      need(b) == IF b >= 194 /\ b <= 223 THEN 1
                 ELSE IF b >= 224 /\ b <= 239 THEN 2
                 ELSE IF b >= 240 /\ b <= 244 THEN 3 ELSE 0
      lower(b) == IF b = 224 THEN 160 ELSE IF b = 240 THEN 144 ELSE 128
      upper(b) == IF b = 237 THEN 159 ELSE IF b = 244 THEN 143 ELSE 191
      \* continuation bytes that follow the lead byte at i
      follows(i, k) == /\ i + k <= n
                       /\ bytes[i + k] >= (IF k = 1 THEN lower(bytes[i]) ELSE 128)
                       /\ bytes[i + k] <= (IF k = 1 THEN upper(bytes[i]) ELSE 191)
      good(i) == IF ~follows(i, 1) THEN 0
                 ELSE IF ~follows(i, 2) THEN 1
                 ELSE IF ~follows(i, 3) THEN 2 ELSE 3
      units(cp) == IF cp < 65536 THEN <<cp>>
                   ELSE <<55296 + ((cp - 65536) \div 1024), 56320 + ((cp - 65536) % 1024)>>
      dec(i) ==
        IF i > n THEN <<>>
        ELSE LET b == bytes[i]
                 k == need(b)
                 g == IF good(i) < k THEN good(i) ELSE k
                 cp == IF k = 1 THEN (b - 192) * 64 + (bytes[i + 1] - 128)
                       ELSE IF k = 2
                       THEN (b - 224) * 4096 + (bytes[i + 1] - 128) * 64 + (bytes[i + 2] - 128)
                       ELSE (b - 240) * 262144 + (bytes[i + 1] - 128) * 4096
                              + (bytes[i + 2] - 128) * 64 + (bytes[i + 3] - 128)
             IN IF b < 128 THEN <<b>> \o dec(i + 1)
                ELSE IF k = 0 \/ g < k THEN <<65533>> \o dec(i + 1 + g)
                ELSE units(cp) \o dec(i + 1 + k)
      decoded == dec(1)
  IN IF decoded # <<>> /\ Head(decoded) = 65279 THEN Tail(decoded) ELSE decoded

\* encrypt and decrypt: bytes.map((byte, i) => byte ^ keyBytes[i % keyBytes.length])
XorBytes(bytes, keyBytes) ==
  LET RECURSIVE xor(_, _)
      xor(a, b) == IF a = 0 /\ b = 0 THEN 0
                   ELSE ((a + b) % 2) + 2 * xor(a \div 2, b \div 2)
  IN [i \in 1..Len(bytes) |->
        IF keyBytes = <<>> THEN bytes[i]
        ELSE xor(bytes[i], keyBytes[((i - 1) % Len(keyBytes)) + 1])]

\* btoa(String.fromCharCode(...bytes))
Btoa(bytes) ==
  LET RECURSIVE enc(_)
      n == Len(bytes)
      at(i) == IF i <= n THEN bytes[i] ELSE 0
      enc(i) ==
        IF i > n THEN <<>>
        ELSE << at(i) \div 4,
                (at(i) % 4) * 16 + (at(i + 1) \div 16),
                IF i + 1 <= n THEN (at(i + 1) % 16) * 4 + (at(i + 2) \div 64) ELSE 64,
                IF i + 2 <= n THEN at(i + 2) % 64 ELSE 64 >> \o enc(i + 3)
  IN enc(1)

\* atob(text).split('').map((c) => c.charCodeAt(0)); atob throws on a text
\* that is not base64
Atob(text) ==
  LET RECURSIVE dec(_)
      len == Len(text)
      pad == IF len % 4 # 0 \/ len = 0 \/ text[len] # 64 THEN 0
             ELSE IF text[len - 1] = 64 THEN 2 ELSE 1
      n == len - pad
      dec(i) ==
        IF i > n THEN <<>>
        ELSE << text[i] * 4 + (text[i + 1] \div 16) >>
               \o (IF i + 2 <= n
                   THEN << (text[i + 1] % 16) * 16 + (text[i + 2] \div 4) >> ELSE <<>>)
               \o (IF i + 3 <= n THEN << (text[i + 2] % 4) * 64 + text[i + 3] >> ELSE <<>>)
               \o dec(i + 4)
  IN IF n % 4 = 1 \/ \E i \in 1..n : text[i] > 63
     THEN [ok |-> FALSE, bytes |-> <<>>]
     ELSE [ok |-> TRUE, bytes |-> dec(1)]

\* CryptoUtils.deriveKey: `iterations' rounds of SHA-256 over the bytes of the
\* password (pwd) followed by those of the salt, the first keyLength bytes of the
\* outcome in lower-case hexadecimal. `digest' gives the 32 bytes the rounds
\* end with; `hashFails' stands for Crypto.digestStringAsync throwing.
DeriveKey(pwd, salt, iterations, keyLength, digest, hashFails) ==
  LET data == TextEncode(pwd) \o TextEncode(salt)
      derived == IF iterations = 0 THEN data ELSE digest[<<data, iterations>>]
      last == IF keyLength < Len(derived) THEN keyLength ELSE Len(derived)
      hex(n) == IF n < 10 THEN 48 + n ELSE 87 + n
  IN IF iterations > 0 /\ hashFails
     THEN [ok |-> FALSE, key |-> <<>>]
     ELSE [ok |-> TRUE,
           key |-> [j \in 1..(2 * last) |->
                      IF j % 2 = 1 THEN hex(derived[(j + 1) \div 2] \div 16)
                      ELSE hex(derived[j \div 2] % 16)]]

\* CryptoUtils.encrypt: the envelope JSON.stringify({encrypted, salt}); a salt
\* that is left out or empty is replaced by generateSalt()
CryptoEncrypt(text, pwd, salt, generated, digest, hashFails) ==
  LET used == IF salt = <<>> THEN generated ELSE salt
      key == DeriveKey(pwd, used, 10000, 32, digest, hashFails)
  IN [ok |-> key.ok,
      envelope |-> [kind |-> "object", hasEncrypted |-> key.ok,
                    encrypted |-> IF key.ok
                                  THEN Btoa(XorBytes(TextEncode(text), TextEncode(key.key)))
                                  ELSE <<>>,
                    hasSalt |-> TRUE, salt |-> used]]

\* the try block of CryptoUtils.decrypt. JSON.parse throws on a text that is
\* not JSON, the destructuring throws on null, deriveKey throws on a salt that
\* is undefined (salt.length), and atob throws on 'undefined' as on any text
\* that is not base64.
DecryptTry(encryptedData, pwd, digest, hashFails) ==
  LET key == DeriveKey(pwd, encryptedData.salt, 10000, 32, digest, hashFails)
      raw == Atob(encryptedData.encrypted)
  IN IF \/ encryptedData.kind # "object"
        \/ ~encryptedData.hasSalt
        \/ ~key.ok
        \/ ~encryptedData.hasEncrypted
        \/ ~raw.ok
     THEN [thrown |-> TRUE, text |-> <<>>]
     ELSE [thrown |-> FALSE, text |-> TextDecode(XorBytes(raw.bytes, TextEncode(key.key)))]

DecryptCatchReturnsEmpty == [failed |-> FALSE, text |-> <<>>]

\* catch (error) { throw new Error('Decryption failed: ' + error.message) }
DecryptCatch == [failed |-> TRUE, text |-> <<>>]

CryptoDecrypt(encryptedData, pwd, digest, hashFails) ==
  LET try == DecryptTry(encryptedData, pwd, digest, hashFails)
  IN IF try.thrown THEN DecryptCatch ELSE [failed |-> FALSE, text |-> try.text]

CryptoHashPasswordFreshSalt(pwd, salt, generated, digest, hashFails) ==
  [ok |-> DeriveKey(pwd, generated, 10000, 64, digest, hashFails).ok,
   hash |-> DeriveKey(pwd, generated, 10000, 64, digest, hashFails).key,
   salt |-> generated]

\* CryptoUtils.hashPassword: deriveKey(password, salt, 10000, 64) with the salt
\* given, or with generateSalt() when it is left out or empty
CryptoHashPassword(pwd, salt, generated, digest, hashFails) ==
  LET used == IF salt = <<>> THEN generated ELSE salt
      key == DeriveKey(pwd, used, 10000, 64, digest, hashFails)
  IN [ok |-> key.ok, hash |-> key.key, salt |-> used]

\* CryptoUtils.verifyPassword: hash === storedHash
CryptoVerifyPassword(pwd, storedHash, salt, generated, digest, hashFails) ==
  LET hashed == CryptoHashPassword(pwd, salt, generated, digest, hashFails)
  IN [ok |-> hashed.ok, valid |-> hashed.ok /\ hashed.hash = storedHash]

\* ------------------------------------------------- calls of CryptoUtils
\* the passwords 'pw' and U+00E9
CryptoPasswords == { <<112, 119>>, <<233>> }

\* the salt argument: left out (or empty), or 's1'
SaltArgs == { <<>>, <<115, 49>> }

\* generateSalt(): 32 characters of the alphabet of generateRandomString
GeneratedSalts == { [i \in 1..32 |-> 97], [i \in 1..32 |-> 98] }

\* decrypt(await encrypt(text, password, salt), password); the digest
\* primitive may fail in encrypt, which then hands out no envelope.
\* The code units: 'A', U+00E9, U+20AC, the two halves of U+1F600, U+FEFF.
CallEncryptThenDecrypt ==
  /\ call.op = "none"
  /\ \E text \in UNION {[1..n -> {65, 233, 8364, 55357, 56832, 65279}] : n \in 0..MaxText},
        pwd \in CryptoPasswords, salt \in SaltArgs, generated \in GeneratedSalts,
        hashFails \in BOOLEAN :
       LET enc == CryptoEncrypt(text, pwd, salt, generated, call.digest, hashFails)
       IN call' = [ op |-> "roundTrip", accepted |-> {}, digest |-> call.digest,
                    text |-> text, password |-> pwd, salt |-> salt,
                    encrypted |-> enc,
                    result |-> IF enc.ok
                               THEN CryptoDecrypt(enc.envelope, pwd, call.digest, FALSE)
                               ELSE DecryptCatch ]
  /\ UNCHANGED <<store, route, alerts, screenVars, pending, smVars, histVars, confirmPresses,
                 lastEvent>>

\* decrypt of a text that encrypt did not produce: not JSON; 'null'; a number,
\* string, boolean or array; an object with or without its two members, whose
\* `encrypted' is '', 'QQ', 'QQ==', 'Q', 'QQQ*' or 'QUJD'
CallDecrypt ==
  /\ call.op = "none"
  /\ \E kind \in {"text", "null", "scalar", "object"},
        hasEncrypted \in BOOLEAN, hasSalt \in BOOLEAN,
        encrypted \in { <<>>, <<16, 16>>, <<16, 16, 64, 64>>, <<16>>, <<16, 16, 16, 65>>,
                        <<16, 20, 9, 3>> },
        salt \in SaltArgs, pwd \in CryptoPasswords, hashFails \in BOOLEAN :
       /\ kind # "object" => ~hasEncrypted /\ ~hasSalt
       /\ ~hasEncrypted => encrypted = <<>>
       /\ ~hasSalt => salt = <<>>
       /\ LET encryptedData == [kind |-> kind, hasEncrypted |-> hasEncrypted,
                                encrypted |-> encrypted, hasSalt |-> hasSalt, salt |-> salt]
          IN call' = [ op |-> "decrypt", accepted |-> {}, digest |-> call.digest,
                       encryptedData |-> encryptedData, password |-> pwd,
                       hashFails |-> hashFails,
                       result |-> CryptoDecrypt(encryptedData, pwd, call.digest, hashFails) ]
  /\ UNCHANGED <<store, route, alerts, screenVars, pending, smVars, histVars, confirmPresses,
                 lastEvent>>

\* deriveKey with one round or the 10000 of its callers, and a key length up
\* to the 64 that hashPassword asks for
CallDeriveKey ==
  /\ call.op = "none"
  /\ \E pwd \in CryptoPasswords, salt \in SaltArgs, iterations \in {1, 10000},
        keyLength \in {1, 16, 32, 33, 64}, hashFails \in BOOLEAN :
       call' = [ op |-> "deriveKey", accepted |-> {}, digest |-> call.digest,
                 password |-> pwd, salt |-> salt, iterations |-> iterations,
                 keyLength |-> keyLength,
                 result |-> DeriveKey(pwd, salt, iterations, keyLength, call.digest,
                                      hashFails) ]
  /\ UNCHANGED <<store, route, alerts, screenVars, pending, smVars, histVars, confirmPresses,
                 lastEvent>>

\* const {hash, salt} = await hashPassword(password, salt?), then
\* verifyPassword(candidate, hash, salt); `fresh' is what generateSalt would
\* hand to the second hashPassword
CallVerifyPassword ==
  /\ call.op = "none"
  /\ \E pwd \in CryptoPasswords, candidate \in CryptoPasswords, salt \in SaltArgs,
        generated \in GeneratedSalts, fresh \in GeneratedSalts, hashFails \in BOOLEAN :
       LET hashed == CryptoHashPassword(pwd, salt, generated, call.digest, FALSE)
       IN call' = [ op |-> "verifyPassword", accepted |-> {}, digest |-> call.digest,
                    password |-> pwd, candidate |-> candidate, salt |-> salt,
                    hashed |-> hashed, hashFails |-> hashFails,
                    candidateHash |-> DeriveKey(candidate, hashed.salt, 10000, 64,
                                                call.digest, FALSE).key,
                    result |-> CryptoVerifyPassword(candidate, hashed.hash, hashed.salt,
                                                    fresh, call.digest, hashFails) ]
  /\ UNCHANGED <<store, route, alerts, screenVars, pending, smVars, histVars, confirmPresses,
                 lastEvent>>

\* The digests: every input ends in the same 32 bytes; or the bytes depend on
\* the input's length, first and last byte and on the number of rounds.
InitCrypto ==
  LET salts == SaltArgs \cup GeneratedSalts
      inputs == {<<TextEncode(p) \o TextEncode(s), it>> :
                    p \in CryptoPasswords, s \in salts, it \in {1, 10000}}
      bytes32(k) == [i \in 1..32 |-> (k * 37 + i * 11) % 256]
      mix(x, m) == m * (3 * Len(x[1]) + x[1][1] + x[1][Len(x[1])]) + (x[2] % 7)
      digests == { [x \in inputs |-> bytes32(1)] }
                   \cup { [x \in inputs |-> bytes32(mix(x, m))] : m \in 1..2 }
  IN /\ store = EmptyStore
     /\ call \in {[op |-> "none", accepted |-> {}, digest |-> digest] : digest \in digests}
     /\ AppFresh

SpecCrypto ==
  InitCrypto /\ [][ \/ CallEncryptThenDecrypt
              \/ CallDecrypt
              \/ CallDeriveKey
              \/ CallVerifyPassword ]_vars

\* C27: decrypt(encrypt(P, pw), pw) returns exactly P, for every plaintext and
\* password, with or without a salt given by the caller.
DecryptReturnsEncryptedText ==
  (call.op = "roundTrip" /\ call.encrypted.ok)
    => (~call.result.failed /\ call.result.text = call.text)

\* C28: deriveKey returns exactly keyLength bytes, two hexadecimal characters
\* each, also for a keyLength above the 32 bytes of a digest.
DeriveKeyReturnsKeyLengthBytes ==
  (call.op = "deriveKey" /\ call.result.ok)
    => Len(call.result.key) = 2 * call.keyLength

\* C29: verifyPassword with the hash and salt that hashPassword returned is
\* true for the password that was hashed, and false for every password whose
\* derived hash differs from the stored one.
VerifyPasswordMatchesHashPassword ==
  (call.op = "verifyPassword" /\ ~call.hashFails)
    => /\ call.candidate = call.password => call.result.valid
       /\ call.candidateHash # call.hashed.hash => ~call.result.valid

VerifiedWithGeneratedSalt ==
  /\ call.op = "verifyPassword" /\ ~call.hashFails
  /\ call.salt = <<>> /\ call.hashed.salt \in GeneratedSalts
  /\ call.candidate = call.password /\ call.result.valid

\* C30: decrypt of a text that is not a parseable envelope (not JSON, not an
\* object, an object without `encrypted' or `salt', or with an `encrypted'
\* that is not base64) fails with 'Decryption failed' and returns no text.
DecryptFailsOnMalformedEnvelope ==
  (/\ call.op = "decrypt"
   /\ \/ call.encryptedData.kind # "object"
      \/ ~call.encryptedData.hasEncrypted
      \/ ~call.encryptedData.hasSalt
      \/ ~Atob(call.encryptedData.encrypted).ok)
    => (call.result.failed /\ call.result.text = <<>>)

DecryptFailedWithoutSalt ==
  /\ call.op = "decrypt" /\ ~call.hashFails
  /\ call.encryptedData.kind = "object"
  /\ call.encryptedData.hasEncrypted /\ ~call.encryptedData.hasSalt
  /\ call.result.failed

\* ================================================ the comparisons of secrets
\* One expected value compared with two candidates of its length, as a hash
\* (verifyPassword) and as a TOTP code (verifyTOTP); a comparison is the
\* sequence of character positions it reads.
\* constantTimeCompareSteps: TOTPManager.constantTimeCompare(a, b) reads no
\* position when the lengths differ, else every position in turn.
\* strictEqualsSteps: CryptoUtils.verifyPassword, hash === storedHash on two
\* strings. The language fixes the result of === and not how it is reached:
\* an engine may read every position, or stop at the first one that differs
\* (`stopsEarly').
CallCompare ==
  /\ \E expected \in [1..MaxSecret -> {"0", "1"}],
        first \in [1..MaxSecret -> {"0", "1"}],
        second \in [1..MaxSecret -> {"0", "1"}],
        stopsEarly \in BOOLEAN :
       LET constantTimeCompareSteps(a, b) ==
             IF Len(a) # Len(b) THEN <<>> ELSE [i \in 1..Len(a) |-> i]
           strictEqualsSteps(a, b) ==
             LET differ == {i \in 1..Len(a) : a[i] # b[i]}
                 firstDiffering == CHOOSE i \in differ : \A j \in differ : i <= j
             IN IF Len(a) # Len(b) THEN <<>>
                ELSE IF stopsEarly /\ differ # {} THEN [i \in 1..firstDiffering |-> i]
                ELSE [i \in 1..Len(a) |-> i]
       IN call' = [ op |-> "compare", accepted |-> {}, expected |-> expected,
                    first |-> first, second |-> second,
                    hashSteps |-> << strictEqualsSteps(first, expected),
                                     strictEqualsSteps(second, expected) >>,
                    totpSteps |-> << constantTimeCompareSteps(first, expected),
                                     constantTimeCompareSteps(second, expected) >> ]
  /\ UNCHANGED <<store, route, alerts, screenVars, pending, smVars, histVars, confirmPresses,
                 lastEvent>>

SpecCompare == Init /\ [][CallCompare]_vars

\* C31: the comparison of a candidate hash and of a candidate TOTP code with
\* the expected value takes the same steps whatever the candidate holds: two
\* candidates of the expected length are compared in the same steps.
SecretComparisonsAreConstantTime ==
  call.op = "compare" =>
    /\ call.hashSteps[1] = call.hashSteps[2]
    /\ call.totpSteps[1] = call.totpSteps[2]

\* ================================= two concurrent calls of verifyRecoveryCode
\* Both calls present the same code. A call touches the store twice: the read
\* of 'twoFactorConfig' at its start, and the write of the reduced
\* configuration before it returns true; nothing is held in between.

\* await SecureStore.getItemAsync('twoFactorConfig') of call p resolves, or
\* throws (the outer catch returns false); the first read fixes the arguments
ReadTwoFactorConfig ==
  /\ \E p \in 1..2, providedCode \in Codes, masterPassword \in Passwords, fails \in BOOLEAN :
       LET started == call.op = "verifyTwice"
           waiting == [pc |-> "start", config |-> No2FA, ok |-> FALSE]
           calls == IF started THEN call.calls ELSE [q \in 1..2 |-> waiting]
       IN /\ calls[p].pc = "start"
          /\ started => (providedCode = call.code /\ masterPassword = call.pw)
          /\ call' = [ op |-> "verifyTwice", accepted |-> {}, code |-> providedCode,
                       pw |-> masterPassword, before |-> IF started THEN call.before ELSE store,
                       calls |-> [calls EXCEPT
                                    ![p] = IF fails
                                           THEN [pc |-> "done", config |-> No2FA, ok |-> FALSE]
                                           ELSE [pc |-> "read", config |-> store.twoFactorConfig,
                                                 ok |-> FALSE]] ]
  /\ UNCHANGED <<store, route, alerts, screenVars, pending, smVars, histVars, confirmPresses,
                 lastEvent>>

\* the rest of call p, on the configuration it read: match, splice, encrypt,
\* SecureStore.setItemAsync('twoFactorConfig', ...), return
FinishVerifyRecoveryCode ==
  /\ call.op = "verifyTwice"
  /\ \E p \in 1..2 :
       LET read == [store EXCEPT !.twoFactorConfig = call.calls[p].config]
           r == VerifyRecoveryCode(read, call.code, call.pw, FALSE)
       IN /\ call.calls[p].pc = "read"
          /\ store' = IF r.wrote
                      THEN [store EXCEPT !.twoFactorConfig = r.store.twoFactorConfig]
                      ELSE store
          /\ call' = [call EXCEPT !.calls[p].pc = "done", !.calls[p].ok = r.ok]
  /\ UNCHANGED <<route, alerts, screenVars, pending, smVars, histVars, confirmPresses,
                 lastEvent>>

SpecVerifyTwice ==
  InitRecovery /\ [][ \/ ReadTwoFactorConfig
                      \/ FinishVerifyRecoveryCode ]_vars

\* C32: of two concurrent calls of verifyRecoveryCode that present the same
\* code, at most one returns true, however their steps interleave.
AtMostOneConcurrentCallAccepts ==
  call.op = "verifyTwice" => ~(call.calls[1].ok /\ call.calls[2].ok)

\* C33: the factors an attempt requires are those of the settings loaded when
\* the screen was mounted: once loaded, authSettings stays as it is until the
\* screen is mounted anew or the process restarts, whatever happens to the
\* stored settings in between.
RequiredFactorsFixedDuringAttempt ==
  [][ (settingsLoaded /\ lastEvent' \notin {"mount", "restart"})
        => authSettings' = authSettings ]_vars

StepTakenAfterSettingsChanged ==
  /\ route = "authenticate" /\ settingsLoaded
  /\ authSettings.biometricEnabled /\ store.biometricEnabled = NULL
  /\ completedAuth.password /\ authStep = 2

ViewItem ==
  /\ call.op \in {"none", "vault"}
  /\ call.op = "vault" => (~call.isModalVisible /\ call.dialog = "none")
  /\ \E item \in 1..4, read \in {"found", "missing", "thrown"} :
       LET decryptions == IF call.op = "vault" THEN call.decryptions ELSE {}
       IN call' =
            [ op |-> "vault", accepted |-> {}, selectedItem |-> item,
              isModalVisible |-> item <= 2 \/ read = "found",
              isDecrypting |-> item > 2 /\ read # "thrown",
              decryptedValue |-> IF item = 1 THEN "No content available"
                                 ELSE IF item = 2 THEN "note" ELSE "",
              dialog |-> IF item <= 2 THEN "none"
                         ELSE IF read = "found" THEN "prompt" ELSE "error",
              promptItem |-> IF item > 2 /\ read = "found" THEN item ELSE 0,
              decryptions |-> decryptions ]
  /\ UNCHANGED <<store, route, alerts, screenVars, pending, smVars, histVars, confirmPresses,
                 lastEvent>>

\* the Cancel button of the prompt
PromptCancel ==
  /\ call.op = "vault" /\ call.dialog = "prompt"
  /\ call' = [call EXCEPT !.dialog = "none", !.promptItem = 0,
                          !.isModalVisible = FALSE, !.isDecrypting = FALSE]
  /\ UNCHANGED <<store, route, alerts, screenVars, pending, smVars, histVars, confirmPresses,
                 lastEvent>>

\* the Decrypt button of the prompt, up to the call of CryptoUtils.verifyPassword
PromptDecrypt ==
  /\ call.op = "vault" /\ call.dialog = "prompt"
  /\ \E pwd \in Passwords \cup {""} :
       call' = IF pwd = ""
               THEN [call EXCEPT !.dialog = "error", !.promptItem = 0,
                                 !.isModalVisible = FALSE, !.isDecrypting = FALSE]
               ELSE [call EXCEPT !.dialog = "none", !.promptItem = 0,
                                 !.decryptions = @ \cup {[item |-> call.promptItem,
                                                          pwd |-> pwd]}]
  /\ UNCHANGED <<store, route, alerts, screenVars, pending, smVars, histVars, confirmPresses,
                 lastEvent>>

\* the rest of the Decrypt handler, once verifyPassword and decrypt have
\* settled: a wrong password and a throw close the modal behind an alert, the
\* decrypted text is put into decryptedValue
DecryptionSettles ==
  /\ call.op = "vault"
  /\ \E d \in call.decryptions, thrown \in BOOLEAN :
       call' = IF thrown \/ d.pwd # MasterPassword
               THEN [call EXCEPT !.decryptions = @ \ {d}, !.dialog = "error",
                                 !.isModalVisible = FALSE, !.isDecrypting = FALSE]
               ELSE [call EXCEPT !.decryptions = @ \ {d},
                                 !.decryptedValue = IF d.item = 3 THEN "seed words"
                                                    ELSE "private key",
                                 !.isDecrypting = FALSE]
  /\ UNCHANGED <<store, route, alerts, screenVars, pending, smVars, histVars, confirmPresses,
                 lastEvent>>

\* the button of an 'Error' alert
DismissError ==
  /\ call.op = "vault" /\ call.dialog = "error"
  /\ call' = [call EXCEPT !.dialog = "none"]
  /\ UNCHANGED <<store, route, alerts, screenVars, pending, smVars, histVars, confirmPresses,
                 lastEvent>>

\* closeModal, from the close button of the modal or the back button
CloseModal ==
  /\ call.op = "vault" /\ call.isModalVisible /\ call.dialog = "none"
  /\ call' = [call EXCEPT !.isModalVisible = FALSE, !.selectedItem = 0,
                          !.decryptedValue = "", !.isDecrypting = FALSE]
  /\ UNCHANGED <<store, route, alerts, screenVars, pending, smVars, histVars, confirmPresses,
                 lastEvent>>

SpecVault ==
  Init /\ [][ \/ ViewItem
              \/ PromptCancel
              \/ PromptDecrypt
              \/ DecryptionSettles
              \/ DismissError
              \/ CloseModal ]_vars

\* C35: on the vault screen decryptedValue is empty whenever the detail modal
\* is not visible, also when the modal was closed while a decryption had not
\* settled yet.
DecryptedValueOnlyWhileModalVisible ==
  call.op = "vault" => (call.isModalVisible \/ call.decryptedValue = "")

\* C36: every step of the authentication screen that runs emergencyWipe (and
\* raises 'Emergency Wipe Complete') is the confirmation of the second of two
\* dialogs, as with the reset offer; none follows a single confirmation.
EveryWipeAfterTwoConfirmations ==
  [][ ("wipeComplete" \in alerts' /\ "wipeComplete" \notin alerts)
        => (lastEvent' = "wipeReset" /\ confirmPresses' = 2) ]_vars

\* ============================== SecurityManager: launch and session preference
\* One process of the app, in the fields of `call': the text stored under
\* 'sessionTimeout' (<<>> when the key is absent) with the duration in
\* milliseconds its writer meant, the static fields sessionTimeout and
\* isAppInBackground, the delay of the pending session timer, the reads of
\* loadSessionTimeout that have not resolved, the app-state listeners, the
\* handler runs of the last app-state change, the screen (Index mounted with
\* checkAppState ahead, Index left on its splash after initializeSecurity
\* gave up, or a screen past Index), and what the last initializeSecurity and
\* the last resolved loadSessionTimeout saw.

\* parseInt(text) for a text that starts with a digit, as every text the
\* writers of 'sessionTimeout' produce does: the value of its leading digits
ParseInt(text) ==
  LET RECURSIVE value(_, _)
      digitChars == << "0", "1", "2", "3", "4", "5", "6", "7", "8", "9" >>
      isDigit(c) == \E d \in 1..10 : digitChars[d] = c
      digit(c) == (CHOOSE d \in 1..10 : digitChars[d] = c) - 1
      value(i, acc) == IF i > Len(text) \/ ~isDigit(text[i]) THEN acc
                       ELSE value(i + 1, acc * 10 + digit(text[i]))
  IN value(1, 0)

\* the static fields of SecurityManager in a new process, Index mounted
FreshLaunch(stored, meant) ==
  [ op |-> "launch", accepted |-> {}, stored |-> stored, meant |-> meant,
    sessionTimeout |-> DefaultSessionTimeout, timerDelay |-> 0, loads |-> 0,
    listeners |-> 0, handled |-> 0, inits |-> 0, inBackground |-> FALSE,
    screen |-> "index",
    atInit |-> [delay |-> 0, stored |-> <<>>],
    loaded |-> [value |-> 0, meant |-> 0] ]

\* Index.checkAppState: initializeSecurity, which gives up before its setup
\* calls when the network check or enableScreenProtection stops it, and
\* otherwise starts loadSessionTimeout without awaiting it, arms the session
\* timer and adds an app-state listener; then the navigation away from Index
InitializeSecurity ==
  /\ call.op \in {"none", "launch"}
  /\ \E gaveUp \in BOOLEAN :
       LET cur == IF call.op = "launch" THEN call ELSE FreshLaunch(<<>>, 0)
       IN /\ cur.screen = "index" /\ cur.inits < MaxInits
          /\ call' = IF gaveUp THEN [cur EXCEPT !.inits = @ + 1, !.screen = "splash"]
                     ELSE [cur EXCEPT !.inits = @ + 1, !.loads = @ + 1,
                                      !.timerDelay = cur.sessionTimeout,
                                      !.listeners = @ + 1,
                                      !.screen = "app",
                                      !.atInit = [delay |-> cur.sessionTimeout,
                                                  stored |-> cur.stored]]
  /\ UNCHANGED <<store, route, alerts, screenVars, pending, smVars, histVars, confirmPresses,
                 lastEvent>>

\* loadSessionTimeout after its await: a stored text is parsed into
\* this.sessionTimeout; a read that throws is logged
LoadSessionTimeoutResolves ==
  /\ call.op = "launch" /\ call.loads > 0
  /\ \E thrown \in BOOLEAN :
       call' = IF thrown \/ call.stored = <<>>
               THEN [call EXCEPT !.loads = @ - 1]
               ELSE [call EXCEPT !.loads = @ - 1,
                                 !.sessionTimeout = ParseInt(call.stored),
                                 !.loaded = [value |-> ParseInt(call.stored),
                                             meant |-> call.meant]]
  /\ UNCHANGED <<store, route, alerts, screenVars, pending, smVars, histVars, confirmPresses,
                 lastEvent>>

\* setup.tsx: SecurityManager.setSessionTimeout(sessionTimeout) with one of
\* the options of the setup screen, in milliseconds; a write that throws
\* leaves the timer as it was
SetupSetSessionTimeout ==
  /\ call.op = "launch" /\ call.screen = "app"
  /\ \E timeoutMs \in {30000, 60000}, thrown \in BOOLEAN :
       call' = IF thrown THEN [call EXCEPT !.sessionTimeout = timeoutMs]
               ELSE [call EXCEPT !.sessionTimeout = timeoutMs,
                                 !.stored = NumberToString(timeoutMs),
                                 !.meant = timeoutMs,
                                 !.timerDelay = timeoutMs]
  /\ UNCHANGED <<store, route, alerts, screenVars, pending, smVars, histVars, confirmPresses,
                 lastEvent>>

\* SettingsScreen.updateSessionTimeout with an option of the picker, in
\* minutes (here in tenths of a minute: 0.5, 1, 5): newTimeout.toString() is
\* stored, this.sessionTimeout and the timer are left alone
UpdateSessionTimeout ==
  /\ call.op = "launch" /\ call.screen = "app"
  /\ \E tenths \in {5, 10, 50}, thrown \in BOOLEAN :
       call' = IF thrown THEN call
               ELSE [call EXCEPT
                       !.stored = IF tenths % 10 = 0 THEN NumberToString(tenths \div 10)
                                  ELSE NumberToString(tenths \div 10) \o << "." >>
                                         \o NumberToString(tenths % 10),
                       !.meant = tenths * 6000]
  /\ UNCHANGED <<store, route, alerts, screenVars, pending, smVars, histVars, confirmPresses,
                 lastEvent>>

\* AppState 'change': every registered listener runs its handler
AppStateChange ==
  /\ call.op = "launch" /\ call.screen = "app"
  /\ call' = [call EXCEPT !.inBackground = ~@, !.handled = call.listeners]
  /\ UNCHANGED <<store, route, alerts, screenVars, pending, smVars, histVars, confirmPresses,
                 lastEvent>>

\* performSecureLogout (or the OK of the wipe): router.replace('/') mounts Index
LogoutToIndex ==
  /\ call.op = "launch" /\ call.screen = "app" /\ ~call.inBackground
  /\ call' = [call EXCEPT !.screen = "index"]
  /\ UNCHANGED <<store, route, alerts, screenVars, pending, smVars, histVars, confirmPresses,
                 lastEvent>>

\* the process is ended and started again: the store is all that is kept
ProcessRestart ==
  /\ call.op = "launch"
  /\ call' = FreshLaunch(call.stored, call.meant)
  /\ UNCHANGED <<store, route, alerts, screenVars, pending, smVars, histVars, confirmPresses,
                 lastEvent>>

SpecLaunch ==
  Init /\ [][ \/ InitializeSecurity
              \/ LoadSessionTimeoutResolves
              \/ SetupSetSessionTimeout
              \/ UpdateSessionTimeout
              \/ AppStateChange
              \/ LogoutToIndex
              \/ ProcessRestart ]_vars

\* C37: the duration loadSessionTimeout puts into this.sessionTimeout is the
\* duration the writer of the stored text meant, whichever writer it was.
StoredTimeoutMeansTheSameToAll ==
  call.op = "launch" => call.loaded.value = call.loaded.meant

\* C38: the session timer armed by initializeSecurity runs with the stored
\* preference whenever there is one.
FirstTimerUsesStoredTimeout ==
  (call.op = "launch" /\ call.atInit.stored # <<>>)
    => call.atInit.delay = ParseInt(call.atInit.stored)

\* C39: one app-state listener is registered however often initializeSecurity
\* has run, and an app-state change runs its handler once.
OneAppStateListener ==
  call.op = "launch" => (call.listeners <= 1 /\ call.handled <= 1)

====
